---- MODULE Spec2Model ----
(***************************************************************************)
(* A model of the document editing layer of autosnapgene (api.py): the     *)
(* ordered block list of a SnapGene document and the trace operations that *)
(* keep the AlignmentsBlock metadata and the AlignedSequenceBlock blocks   *)
(* in step.  Every method is an operator from a block list (and its        *)
(* arguments) to the block list it leaves behind and the way it returned:  *)
(* "ok", or the name of the exception that left it.                        *)
(***************************************************************************)
EXTENDS Integers, Sequences, FiniteSets, TLC

VARIABLES
    blocks,     \* SnapGene.blocks: the ordered list of block objects
    input_path, \* SnapGene.input_path: None, or the path the document was
                \* parsed from
    files,      \* the files on disk: for each path the bytes it holds, or
                \* NoFile
    call        \* the method call that has just run: its name, arguments,
                \* the block list it started from and how it returned; Idle
                \* between calls

vars == <<blocks, input_path, files, call>>

(***************************************************************************)
(* Bounds and input sets.                                                  *)
(***************************************************************************)
MaxTraces == 3

\* Strings are sequences of one-character strings, so that Path.stem and the
\* string order used by sort_traces are computed, not assumed.
NameA == <<"A">>
NameB == <<"B">>
Names == {NameA, NameB}

PathA == <<"A", ".", "z">>
PathB == <<"d", "/", "B", ".", "z">>
PathStrs == {PathA, PathB}

\* Python's None, for the optional name arguments (the empty string is not
\* among the inputs, so the two are not confused).
None == <<>>

\* A str or a pathlib.Path argument.
Str(s) == [isPath |-> FALSE, s |-> s]
PathObj(s) == [isPath |-> TRUE, s |-> s]
NoneArg == Str(None)

\* insert_trace turns its path into a Path first, so a str and a Path are the
\* same to it; add_trace looks its path up among the names before that.
Paths == {PathObj(p) : p \in PathStrs}
PathArgs == Paths \cup {Str(PathB)}
NameArgs == {Str(n) : n \in Names} \cup {PathObj(p) : p \in PathStrs}
\* The optional name of a new trace: absent, or a name that differs from the
\* stem of one of the paths.
OptNames == {None, NameB}

\* What the convert_trace subprocess does: succeed, be missing from the
\* system (FileNotFoundError), or exit non-zero (CalledProcessError).
TranscoderOutcomes == {"ok", "FileNotFoundError", "CalledProcessError"}

\* The paths a document is read from and written to, and a disk without
\* files.
FilePaths == {PathA, PathB}
NoFile == <<"NoFile">>
NoFiles == [p \in FilePaths |-> NoFile]

(***************************************************************************)
(* Strings and paths.                                                      *)
(***************************************************************************)
\* Code points of the characters in use (str comparison is by code point).
Code(c) ==
    CASE c = "." -> 46
      [] c = "/" -> 47
      [] c = "A" -> 65
      [] c = "B" -> 66
      [] c = "C" -> 67
      [] c = "a" -> 97
      [] c = "c" -> 99
      [] c = "d" -> 100
      [] c = "z" -> 122

\* s < t for Python strings.
RECURSIVE StrLess(_, _)
StrLess(s, t) ==
    IF t = <<>> THEN FALSE
    ELSE IF s = <<>> THEN TRUE
    ELSE IF Code(Head(s)) # Code(Head(t)) THEN Code(Head(s)) < Code(Head(t))
    ELSE StrLess(Tail(s), Tail(t))

\* The largest index of character c in s, 0 when there is none (str.rfind + 1).
RFind(s, c) ==
    LET hits == {k \in 1..Len(s) : s[k] = c}
    IN  IF hits = {} THEN 0 ELSE CHOOSE k \in hits : \A j \in hits : j <= k

\* PurePath.name: the final path component.
PathName(s) == SubSeq(s, RFind(s, "/") + 1, Len(s))

\* PurePath.stem: the final component without its last suffix.
stem(s) ==
    LET name == PathName(s)
        i == RFind(name, ".")
    IN  IF 1 < i /\ i < Len(name) THEN SubSeq(name, 1, i - 1) ELSE name

\* "if isinstance(name, Path): name = name.stem"
NameOf(arg) == IF arg.isPath THEN stem(arg.s) ELSE arg.s

\* Path.read_bytes followed by the transcoder: the ZTR bytes of a trace file.
\* Different files give different bytes.
ztr_from_data(s) == <<"ZTR", s>>

(***************************************************************************)
(* Lists.                                                                  *)
(***************************************************************************)
Min2(a, b) == IF a < b THEN a ELSE b
Max2(a, b) == IF a > b THEN a ELSE b

\* max(xs, default=d), and the variant that takes the least element.
MinOf(S, d) == IF S = {} THEN d ELSE CHOOSE x \in S : \A y \in S : x <= y

MaxOf(S, d) == IF S = {} THEN d ELSE CHOOSE x \in S : \A y \in S : y <= x

\* A variant of ListInsert that ignores the index and appends.
ListInsertAtEnd(s, i, x) == Append(s, x)

\* list.insert(i, x), i a 0-based Python index (negative and overlong
\* indices are clamped as Python does).
ListInsert(s, i, x) ==
    LET n == Len(s)
        j == IF i < 0 THEN Max2(i + n, 0) ELSE Min2(i, n)
    IN  SubSeq(s, 1, j) \o <<x>> \o SubSeq(s, j + 1, n)

\* list.remove(x): drop the first element equal to x.
RemoveFirst(s, x) ==
    LET hits == {k \in 1..Len(s) : s[k] = x}
    IN  IF hits = {} THEN s
        ELSE LET k == CHOOSE k \in hits : \A j \in hits : k <= j
             IN  SubSeq(s, 1, k - 1) \o SubSeq(s, k + 1, Len(s))

\* The elements of s whose index is not in drop, in order.
RECURSIVE DropIdx(_, _, _)
DropIdx(s, drop, k) ==
    IF k > Len(s) THEN <<>>
    ELSE (IF k \in drop THEN <<>> ELSE <<s[k]>>) \o DropIdx(s, drop, k + 1)

(***************************************************************************)
(* Blocks.                                                                 *)
(***************************************************************************)
NoId == -1

\* cls(): a freshly constructed block of the given class.
NewBlock(cls) ==
    [cls |-> cls, id |-> NoId, traces |-> <<>>, metadata |-> <<>>,
     features |-> <<>>, sequence |-> <<>>]

\* SnapGene.reset
reset == <<NewBlock("HeaderBlock"), NewBlock("RestrictionDigestBlock")>>

make_block(bs, cls) == Append(bs, NewBlock(cls))

find_blocks(bs, cls) == SelectSeq(bs, LAMBDA b : b.cls = cls)

BlockIdxs(bs, cls) == {k \in 1..Len(bs) : bs[k].cls = cls}

\* A variant of find_block that returns the first of several blocks.
find_blockFirst(bs, cls) ==
    LET ks == BlockIdxs(bs, cls)
    IN  IF ks = {} THEN [result |-> "BlockNotFound", idx |-> 0]
        ELSE [result |-> "ok", idx |-> CHOOSE k \in ks : \A j \in ks : k <= j]

\* find_block: "ok" with the one block, BlockNotFound or AssertionError.
find_block(bs, cls) ==
    LET ks == BlockIdxs(bs, cls)
    IN  IF ks = {} THEN [result |-> "BlockNotFound", idx |-> 0]
        ELSE IF Cardinality(ks) > 1 THEN [result |-> "AssertionError", idx |-> 0]
        ELSE [result |-> "ok", idx |-> CHOOSE k \in ks : TRUE]

find_or_make_block(bs, cls) ==
    LET f == find_block(bs, cls)
    IN  IF f.result = "BlockNotFound"
        THEN [result |-> "ok", blocks |-> make_block(bs, cls), idx |-> Len(bs) + 1]
        ELSE [result |-> f.result, blocks |-> bs, idx |-> f.idx]

remove_blocks(bs, cls) == SelectSeq(bs, LAMBDA b : b.cls # cls)

remove_block(bs, cls) ==
    LET f == find_block(bs, cls)
    IN  IF f.result = "BlockNotFound" THEN [result |-> "ok", blocks |-> bs]
        ELSE IF f.result # "ok" THEN [result |-> f.result, blocks |-> bs]
        ELSE [result |-> "ok", blocks |-> DropIdx(bs, {f.idx}, 1)]

(***************************************************************************)
(* Traces: AlignmentMetadata entries in the AlignmentsBlock, each linked   *)
(* by id to an AlignedSequenceBlock.                                       *)
(***************************************************************************)
\* An attribute of an Xml object that has not been set is the empty set; a
\* set one is the singleton of its value.
Undef == {}
Some(v) == {v}

\* AlignmentMetadata() with the attributes insert_trace assigns.
NewMetadata(id, name) ==
    [id |-> id, name |-> name, is_trace |-> Some(TRUE),
     is_visible |-> Undef, sort_order |-> Undef]

\* The metadata list of the document's AlignmentsBlock.
MetadataOf(bs) == bs[find_block(bs, "AlignmentsBlock").idx].metadata

SetMetadata(bs, md) ==
    [bs EXCEPT ![find_block(bs, "AlignmentsBlock").idx].metadata = md]

\* get_traces(name): [] without an AlignmentsBlock; the metadata list itself
\* when name is None, else the entries with that name.  (More than one
\* AlignmentsBlock makes find_block raise AssertionError: see Raises.)
get_traces(bs, arg) ==
    IF find_block(bs, "AlignmentsBlock").result # "ok" THEN <<>>
    ELSE IF arg = NoneArg THEN MetadataOf(bs)
    ELSE SelectSeq(MetadataOf(bs), LAMBDA x : x.name = NameOf(arg))

\* The AssertionError find_block raises through every trace method when the
\* document has several AlignmentsBlocks.
Raises(bs) == find_block(bs, "AlignmentsBlock").result = "AssertionError"

get_trace_names(bs) ==
    LET md == get_traces(bs, NoneArg) IN [k \in 1..Len(md) |-> md[k].name]

has_trace(bs, arg) == get_traces(bs, arg) # <<>>

count_traces(bs) == Len(get_traces(bs, NoneArg))

\* The ids of the AlignedSequenceBlocks.
SeqBlockIds(bs) == {bs[k].id : k \in BlockIdxs(bs, "AlignedSequenceBlock")}

\* "seq_blocks = {block.id: block for ...}": the (last) block with an id,
\* as its position in bs.
SeqBlockAt(bs, id) ==
    LET ks == {k \in BlockIdxs(bs, "AlignedSequenceBlock") : bs[k].id = id}
    IN  CHOOSE k \in ks : \A j \in ks : j <= k

\* "for i, meta in enumerate(align_block.metadata): meta.sort_order = i"
Enumerated(md) == [k \in 1..Len(md) |-> [md[k] EXCEPT !.sort_order = Some(k - 1)]]

sync_trace_metadata(bs) ==
    LET f == find_block(bs, "AlignmentsBlock")
    IN  IF f.result # "ok" THEN [result |-> f.result, blocks |-> bs]
        ELSE LET existing_ids == SeqBlockIds(bs)
                 kept == SelectSeq(bs[f.idx].metadata, LAMBDA m : m.id \in existing_ids)
             IN  [result |-> "ok", blocks |-> SetMetadata(bs, Enumerated(kept))]

\* A variant of insert_trace that looks up (and so may create) the
\* AlignmentsBlock before it runs the transcoder.
insert_traceBlockFirst(bs, i, path, name, tc) ==
    LET f == find_or_make_block(bs, "AlignmentsBlock")
    IN  IF f.result # "ok" THEN [result |-> f.result, blocks |-> bs]
        ELSE IF tc # "ok" THEN [result |-> tc, blocks |-> f.blocks]
        ELSE
        LET md == f.blocks[f.idx].metadata
            next_id == MaxOf({md[k].id : k \in 1..Len(md)}, 0) + 1
            seq_block == [NewBlock("AlignedSequenceBlock") EXCEPT
                              !.id = next_id, !.traces = <<ztr_from_data(path.s)>>]
            meta == NewMetadata(next_id, IF name # None THEN name ELSE stem(path.s))
        IN  sync_trace_metadata(
                [Append(f.blocks, seq_block) EXCEPT
                    ![f.idx].metadata = ListInsert(md, i, meta)])

\* insert_trace(i, path, name) when the transcoder acts as tc.
insert_trace(bs, i, path, name, tc) ==
    IF tc # "ok" THEN [result |-> tc, blocks |-> bs]
    ELSE
    LET ztr == ztr_from_data(path.s)
        f == find_or_make_block(bs, "AlignmentsBlock")
    IN  IF f.result # "ok" THEN [result |-> f.result, blocks |-> bs]
        ELSE
        LET md == f.blocks[f.idx].metadata
            next_id == MaxOf({md[k].id : k \in 1..Len(md)}, 0) + 1
            seq_block == [NewBlock("AlignedSequenceBlock") EXCEPT
                              !.id = next_id, !.traces = <<ztr>>]
            bs1 == Append(f.blocks, seq_block)
            meta == NewMetadata(next_id, IF name # None THEN name ELSE stem(path.s))
            bs2 == [bs1 EXCEPT ![f.idx].metadata = ListInsert(md, i, meta)]
        IN  \* next_order reads every entry's sort_order; an entry without
            \* one makes Xml.__getattr__ raise AttributeError.
            IF \E k \in 1..Len(md) : md[k].sort_order = Undef
            THEN [result |-> "AttributeError", blocks |-> f.blocks]
            ELSE sync_trace_metadata(bs2)

append_trace(bs, path, name, tc) ==
    IF Raises(bs) THEN [result |-> "AssertionError", blocks |-> bs]
    ELSE insert_trace(bs, count_traces(bs), path, name, tc)

prepend_trace(bs, path, name, tc) == insert_trace(bs, 0, path, name, tc)

\* A variant of RemoveLoop that stops at the first trace of the name.
RemoveLoopFirstOnly(copy, k, name, bs, st) ==
    LET hits == {j \in 1..Len(copy) : copy[j].name = name /\ copy[j].id \in SeqBlockIds(bs)}
    IN  IF hits = {} THEN st
        ELSE LET meta == copy[CHOOSE j \in hits : \A h \in hits : j <= h]
             IN  [st EXCEPT !.md = RemoveFirst(st.md, meta), !.found = TRUE,
                            !.removed = {SeqBlockAt(bs, meta.id)}]

\* The loop of remove_trace over a copy of the metadata list.  st.md is the
\* live metadata list, st.removed the positions (in bs) of the blocks taken
\* out of self.blocks so far.  A metadata id without a block is a KeyError;
\* a block already taken out makes list.remove raise ValueError.
RECURSIVE RemoveLoop(_, _, _, _, _)
RemoveLoop(copy, k, name, bs, st) ==
    IF k > Len(copy) \/ st.err # "ok" THEN st
    ELSE IF copy[k].name # name THEN RemoveLoop(copy, k + 1, name, bs, st)
    ELSE
    LET meta == copy[k]
        md1 == RemoveFirst(st.md, meta)
    IN  IF meta.id \notin SeqBlockIds(bs)
        THEN [st EXCEPT !.md = md1, !.err = "KeyError"]
        ELSE IF SeqBlockAt(bs, meta.id) \in st.removed
        THEN [st EXCEPT !.md = md1, !.err = "ValueError"]
        ELSE RemoveLoop(copy, k + 1, name, bs,
                 [st EXCEPT !.md = md1, !.found = TRUE,
                            !.removed = @ \cup {SeqBlockAt(bs, meta.id)}])

\* A variant of RenumberLoop that renumbers the metadata and leaves the
\* ids of the blocks as they are.
RenumberLoopMetadataOnly(k, bs, st) ==
    [st EXCEPT !.md = [j \in 1..Len(st.md) |-> [st.md[j] EXCEPT !.id = j - 1]]]

\* "for new_id, meta in enumerate(align_block.metadata):
\*      old_id = meta.id; meta.id = seq_blocks[old_id].id = new_id"
\* st.ids[k] is the id now held by the block that was at position k of bs.
RECURSIVE RenumberLoop(_, _, _)
RenumberLoop(k, bs, st) ==
    IF k > Len(st.md) \/ st.err # "ok" THEN st
    ELSE
    LET old_id == st.md[k].id
        md1 == [st.md EXCEPT ![k].id = k - 1]
    IN  IF old_id \notin SeqBlockIds(bs)
        THEN [st EXCEPT !.md = md1, !.err = "KeyError"]
        ELSE RenumberLoop(k + 1, bs,
                 [st EXCEPT !.md = md1, !.ids[SeqBlockAt(bs, old_id)] = k - 1])

\* The block list a state of the two loops stands for.
Commit(bs, idx, st) ==
    DropIdx([k \in 1..Len(bs) |->
                IF k = idx THEN [bs[k] EXCEPT !.metadata = st.md]
                ELSE [bs[k] EXCEPT !.id = st.ids[k]]],
            st.removed, 1)

remove_trace(bs, arg) ==
    LET name == NameOf(arg)
        f == find_block(bs, "AlignmentsBlock")
    IN  IF f.result # "ok" THEN [result |-> f.result, blocks |-> bs]
        ELSE
        LET st0 == [md |-> bs[f.idx].metadata, removed |-> {}, found |-> FALSE,
                    err |-> "ok", ids |-> [k \in 1..Len(bs) |-> bs[k].id]]
            st1 == RemoveLoop(bs[f.idx].metadata, 1, name, bs, st0)
        IN  IF st1.err # "ok" THEN [result |-> st1.err, blocks |-> Commit(bs, f.idx, st1)]
            ELSE IF ~st1.found THEN [result |-> "ValueError", blocks |-> bs]
            ELSE
            LET st2 == RenumberLoop(1, bs, st1)
            IN  IF st2.err # "ok"
                THEN [result |-> st2.err, blocks |-> Commit(bs, f.idx, st2)]
                ELSE sync_trace_metadata(Commit(bs, f.idx, st2))

\* rename_trace calls self.get_trace, which SnapGene does not define (the
\* class has get_traces and, through autoprop, the property traces), so the
\* attribute lookup fails before anything else happens.
rename_trace(bs, old_name, new_name) ==
    [result |-> "AttributeError", blocks |-> bs]

\* A variant of FirstNamed that runs the loop to its end: the index of the
\* last match.
LastNamed(traces, old_name) ==
    LET hits == {k \in 1..Len(traces) : traces[k].name = old_name}
    IN  IF hits = {} THEN Len(traces) - 1
        ELSE (CHOOSE k \in hits : \A j \in hits : j <= k) - 1

\* The value of i after "for i, meta in enumerate(traces): if meta.name ==
\* old_name: break": the 0-based index of the first match, or of the last
\* element when nothing matches.
FirstNamed(traces, old_name) ==
    LET hits == {k \in 1..Len(traces) : traces[k].name = old_name}
    IN  IF hits = {} THEN Len(traces) - 1
        ELSE (CHOOSE k \in hits : \A j \in hits : k <= j) - 1

replace_trace(bs, old_arg, path, new_name, tc) ==
    LET old_name == NameOf(old_arg)
        traces == get_traces(bs, NoneArg)
    IN  IF Raises(bs) THEN [result |-> "AssertionError", blocks |-> bs]
        ELSE IF traces = <<>> THEN [result |-> "ValueError", blocks |-> bs]
        ELSE
        LET i == FirstNamed(traces, old_name)
            r == remove_trace(bs, Str(old_name))
        IN  IF r.result # "ok" THEN r
            ELSE insert_trace(r.blocks, i, path, new_name, tc)

\* A variant of add_trace that looks the path up as a str, not by its stem.
add_traceByStr(bs, path, name, tc) ==
    LET key == IF name # None THEN Str(name) ELSE Str(path.s)
    IN  IF Raises(bs) THEN [result |-> "AssertionError", blocks |-> bs]
        ELSE IF ~has_trace(bs, key) THEN append_trace(bs, path, name, tc)
        ELSE replace_trace(bs, key, path, name, tc)

\* add_trace(path, name): "name or path" is looked up; a str path is
\* compared with the trace names as it is, a Path by its stem.
add_trace(bs, path, name, tc) ==
    LET key == IF name # None THEN Str(name) ELSE path
    IN  IF Raises(bs) THEN [result |-> "AssertionError", blocks |-> bs]
        ELSE IF ~has_trace(bs, key) THEN append_trace(bs, path, name, tc)
        ELSE replace_trace(bs, key, path, name, tc)

\* pick_trace: the loop body ends with a call of debug, a name that is not
\* defined in api.py, so the first iteration sets is_visible and then fails
\* with NameError.
pick_trace(bs, arg) ==
    LET name == NameOf(arg)
        traces == get_traces(bs, NoneArg)
    IN  IF Raises(bs) THEN [result |-> "AssertionError", blocks |-> bs]
        ELSE IF traces = <<>> THEN [result |-> "ok", blocks |-> bs]
        ELSE [result |-> "NameError",
              blocks |-> SetMetadata(bs,
                  [traces EXCEPT ![1].is_visible = Some(traces[1].name = name)])]

\* list.sort(key=lambda x: x.name, reverse=reverse): a stable sort; with
\* reverse, elements with equal keys still keep their original order.
RECURSIVE SortInsert(_, _, _)
SortInsert(sorted, x, reverse) ==
    IF sorted = <<>> THEN <<x>>
    ELSE IF (IF reverse THEN StrLess(Head(sorted).name, x.name)
                        ELSE StrLess(x.name, Head(sorted).name))
    THEN <<x>> \o sorted
    ELSE <<Head(sorted)>> \o SortInsert(Tail(sorted), x, reverse)

RECURSIVE SortedByName(_, _)
SortedByName(s, reverse) ==
    IF s = <<>> THEN <<>>
    ELSE SortInsert(SortedByName(SubSeq(s, 1, Len(s) - 1), reverse), s[Len(s)], reverse)

\* A variant of sort_traces that leaves the sort_order values as they were.
sort_tracesKeepOrder(bs, reverse) ==
    IF Raises(bs) THEN [result |-> "AssertionError", blocks |-> bs]
    ELSE IF find_block(bs, "AlignmentsBlock").result # "ok"
    THEN [result |-> "ok", blocks |-> bs]
    ELSE [result |-> "ok",
          blocks |-> SetMetadata(bs, SortedByName(MetadataOf(bs), reverse))]

\* sort_traces(reverse=...) with the default key: get_traces() returns the
\* metadata list itself, which is sorted in place.
sort_traces(bs, reverse) ==
    IF Raises(bs) THEN [result |-> "AssertionError", blocks |-> bs]
    ELSE IF find_block(bs, "AlignmentsBlock").result # "ok"
    THEN [result |-> "ok", blocks |-> bs]
    ELSE [result |-> "ok",
          blocks |-> SetMetadata(bs, Enumerated(SortedByName(MetadataOf(bs), reverse)))]

clear_traces(bs) ==
    LET r == remove_block(bs, "AlignmentsBlock")
    IN  IF r.result # "ok" THEN r
        ELSE [result |-> "ok", blocks |-> remove_blocks(r.blocks, "AlignedSequenceBlock")]

(***************************************************************************)
(* The sequence, and the features of the FeaturesBlock.                    *)
(***************************************************************************)
\* str.upper, on the letters the sequences here are made of.
UpperChar(c) ==
    CASE c = "a" -> "A"
      [] c = "c" -> "C"
      [] OTHER -> c

upper(s) == [k \in 1..Len(s) |-> UpperChar(s[k])]

\* get_dna_sequence, get_protein_sequence and get_sequence: the value, or
\* the BlockNotFound (or AssertionError) of find_block.
get_dna_sequence(bs) ==
    LET f == find_block(bs, "DnaBlock")
    IN  IF f.result = "ok" THEN [result |-> "ok", value |-> bs[f.idx].sequence]
        ELSE [result |-> f.result, value |-> <<>>]

get_protein_sequence(bs) ==
    LET f == find_block(bs, "ProteinBlock")
    IN  IF f.result = "ok" THEN [result |-> "ok", value |-> bs[f.idx].sequence]
        ELSE [result |-> f.result, value |-> <<>>]

get_sequence(bs) ==
    LET d == get_dna_sequence(bs)
    IN  IF d.result = "BlockNotFound" THEN get_protein_sequence(bs) ELSE d

\* set_sequence: the DnaBlock's sequence, else the ProteinBlock's, else that
\* of a new DnaBlock.
set_sequence(bs, value) ==
    LET d == find_block(bs, "DnaBlock")
        p == find_block(bs, "ProteinBlock")
    IN  IF d.result = "ok"
        THEN [result |-> "ok", blocks |-> [bs EXCEPT ![d.idx].sequence = value]]
        ELSE IF d.result # "BlockNotFound"
        THEN [result |-> d.result, blocks |-> bs]
        ELSE IF p.result = "ok"
        THEN [result |-> "ok", blocks |-> [bs EXCEPT ![p.idx].sequence = value]]
        ELSE IF p.result # "BlockNotFound"
        THEN [result |-> p.result, blocks |-> bs]
        ELSE [result |-> "ok",
              blocks |-> Append(bs, [NewBlock("DnaBlock") EXCEPT !.sequence = value])]

\* FeaturesBlock.get_next_id; the variant counts from one.
get_next_idFromOne(block) == Len(block.features) + 1

get_next_id(block) == Len(block.features)

\* get_features and count_features: [] when there is no FeaturesBlock.  With
\* two FeaturesBlock blocks find_block raises AssertionError; no method here
\* makes a second one.
get_features(bs) ==
    LET f == find_block(bs, "FeaturesBlock")
    IN  IF f.result = "ok" THEN bs[f.idx].features ELSE <<>>

count_features(bs) == Len(get_features(bs))

\* A FeatureSegment; FeatureSegment() has no range yet.
FeatureSegment(range) == [range |-> range]

\* The feature object once its id is set.
WithId(feature, id) ==
    [id |-> id, name |-> feature.name, segments |-> feature.segments]

\* A variant of finditer that, like a search without lookahead, resumes
\* after the end of a match.
RECURSIVE finditerNoOverlap(_, _, _)
finditerNoOverlap(a, s, i) ==
    IF i + Len(a) > Len(s) THEN <<>>
    ELSE IF SubSeq(s, i + 1, i + Len(a)) = a
         THEN <<i>> \o finditerNoOverlap(a, s, i + Len(a))
         ELSE finditerNoOverlap(a, s, i + 1)

\* [m.start() for m in re.finditer('(?=a)', s)] from offset i on, a a
\* non-empty string of letters: every 0-based offset where a starts.
RECURSIVE finditer(_, _, _)
finditer(a, s, i) ==
    IF i + Len(a) > Len(s) THEN <<>>
    ELSE (IF SubSeq(s, i + 1, i + Len(a)) = a THEN <<i>> ELSE <<>>)
         \o finditer(a, s, i + 1)

\* The copy add_feature makes for offset i: deepcopy, a new segment when
\* the feature has none, the range and the id.
AnchoredCopy(feature, seq, i, id) ==
    LET segment == IF feature.segments = <<>> THEN FeatureSegment(Undef)
                   ELSE feature.segments[1]
    IN  [id |-> id, name |-> feature.name,
         segments |-> <<[segment EXCEPT !.range = Some(<<i + 1, i + Len(seq)>>)]>>]

\* add_feature(feature, seq); seq is None (or '') without an anchor.
add_feature(bs, feature, seq) ==
    LET fm == find_or_make_block(bs, "FeaturesBlock")
        block == fm.blocks[fm.idx]
        sequence == get_sequence(fm.blocks)
        positions == finditer(upper(seq), upper(sequence.value), 0)
        new_features ==
            IF seq = None THEN <<WithId(feature, get_next_id(block))>>
            ELSE [k \in 1..Len(positions) |->
                     AnchoredCopy(feature, seq, positions[k], get_next_id(block))]
    IN  IF fm.result # "ok" THEN [result |-> fm.result, blocks |-> bs]
        ELSE IF seq # None /\ sequence.result # "ok"
        THEN [result |-> sequence.result, blocks |-> fm.blocks]
        ELSE IF seq # None /\ positions = <<>>
        THEN [result |-> "SequenceNotFound", blocks |-> fm.blocks]
        ELSE IF seq # None /\ Len(feature.segments) > 1
        THEN [result |-> "ValueError", blocks |-> fm.blocks]
        ELSE [result |-> "ok",
              blocks |-> [fm.blocks EXCEPT ![fm.idx].features = @ \o new_features]]

\* A variant of RemoveNamed that stops after the first feature of the name.
RemoveNamedFirstOnly(copy, k, name, features) ==
    LET hits == {j \in 1..Len(copy) : copy[j].name = name}
    IN  IF hits = {} THEN features
        ELSE RemoveFirst(features, copy[CHOOSE j \in hits : \A h \in hits : j <= h])

\* The loop of remove_feature over the copy of the list, from index k on:
\* features.remove(feat) for every feat of the name.
RECURSIVE RemoveNamed(_, _, _, _)
RemoveNamed(copy, k, name, features) ==
    IF k > Len(copy) THEN features
    ELSE IF copy[k].name = name
         THEN RemoveNamed(copy, k + 1, name, RemoveFirst(features, copy[k]))
         ELSE RemoveNamed(copy, k + 1, name, features)

\* for new_id, feat in enumerate(features): feat.id = new_id
Renumbered(features) ==
    [k \in 1..Len(features) |-> [features[k] EXCEPT !.id = k - 1]]

remove_feature(bs, name) ==
    LET f == find_block(bs, "FeaturesBlock")
        features == bs[f.idx].features
        found_name == \E k \in 1..Len(features) : features[k].name = name
        left == RemoveNamed(features, 1, name, features)
    IN  IF f.result = "BlockNotFound" THEN [result |-> "FeatureNotFound", blocks |-> bs]
        ELSE IF f.result # "ok" THEN [result |-> f.result, blocks |-> bs]
        ELSE IF ~found_name THEN [result |-> "FeatureNotFound", blocks |-> bs]
        ELSE [result |-> "ok",
              blocks |-> [bs EXCEPT ![f.idx].features = Renumbered(left)]]

clear_features(bs) == remove_block(bs, "FeaturesBlock")

(***************************************************************************)
(* The block container: a file is a stream of records, each a 1-byte type  *)
(* tag, a 4-byte big-endian length and the payload.  Bytes are numbers in  *)
(* 0..255, a byte string is a sequence of them, and a decoded str is the   *)
(* sequence of its code points.                                            *)
(***************************************************************************)
\* bytes[i:j] for 0 <= i <= j.
Slice(b, i, j) == SubSeq(b, i + 1, Min2(j, Len(b)))

\* struct.pack and struct.unpack for the formats '>BI' and '>HHH'.  unpack
\* raises struct.error unless it is given exactly the bytes of the format.
pack_H(n) == <<(n \div 256) % 256, n % 256>>
pack_I(n) == <<(n \div 16777216) % 256, (n \div 65536) % 256, (n \div 256) % 256, n % 256>>
pack_BI(b, n) == <<b>> \o pack_I(n)
pack_HHH(x, y, z) == pack_H(x) \o pack_H(y) \o pack_H(z)

unpack_BI(b) ==
    IF Len(b) # 5 THEN [result |-> "struct.error", values |-> <<>>]
    ELSE [result |-> "ok",
          values |-> <<b[1], b[2] * 16777216 + b[3] * 65536 + b[4] * 256 + b[5]>>]

unpack_HHH(b) ==
    IF Len(b) # 6 THEN [result |-> "struct.error", values |-> <<>>]
    ELSE [result |-> "ok",
          values |-> <<b[1] * 256 + b[2], b[3] * 256 + b[4], b[5] * 256 + b[6]>>]

\* bytes.decode('ascii') and str.encode('ascii'): the code points are the
\* bytes; a byte above 127 cannot be decoded.
IsAscii(b) == \A k \in 1..Len(b) : b[k] < 128
encode(str) == [k \in 1..Len(str) |-> Code(str[k])]

\* b'SnapGene'
magic_cookie == <<83, 110, 97, 112, 71, 101, 110, 101>>

\* parser.block_classes: the class registered for a type tag by
\* Block.__init_subclass__; a tag without one is read as UndocumentedBlock.
RegisteredIds == {0, 1, 3, 5, 6, 7, 8, 9, 10, 11, 16, 17, 18, 19, 20, 21}
block_classes(id) ==
    CASE id = 0 -> "DnaBlock"
      [] id = 1 -> "CompressedDnaBlock"
      [] id = 3 -> "RestrictionDigestBlock"
      [] id = 5 -> "PrimerBlock"
      [] id = 6 -> "NotesBlock"
      [] id = 7 -> "HistoryBlock"
      [] id = 8 -> "PropertiesBlock"
      [] id = 9 -> "HeaderBlock"
      [] id = 10 -> "FeaturesBlock"
      [] id = 11 -> "HistoryNodeBlock"
      [] id = 16 -> "AlignedSequenceBlock"
      [] id = 17 -> "AlignmentsBlock"
      [] id = 18 -> "AlignedTraceBlock"
      [] id = 19 -> "UracilBlock"
      [] id = 20 -> "DnaColorBlock"
      [] id = 21 -> "ProteinBlock"
      [] OTHER -> "UndocumentedBlock"

\* The block_id of a class.
block_id(cls) == CHOOSE id \in RegisteredIds : block_classes(id) = cls

\* The subclasses of UnparsedBlock that keep the from_bytes and to_bytes of
\* UnparsedBlock.
UnparsedClasses ==
    {"UndocumentedBlock", "CompressedDnaBlock", "PrimerBlock", "HistoryBlock",
     "HistoryNodeBlock", "PropertiesBlock", "AlignedTraceBlock", "UracilBlock",
     "DnaColorBlock"}

\* A block as the codec sees it: its class, its block_id, its bytes
\* attribute (Undef until blocks_from_bytes sets it) and the attributes of
\* its class.
Block(cls, id, bytes, attrs) ==
    [cls |-> cls, block_id |-> id, bytes |-> bytes, attrs |-> attrs]
NoAttrs == [none |-> TRUE]
Failed(e) == [result |-> e, block |-> Block("", 0, Undef, NoAttrs)]
Made(cls, attrs) == [result |-> "ok", block |-> Block(cls, block_id(cls), Undef, attrs)]

\* HeaderBlock() and HeaderBlock.from_bytes
HeaderBlock_init == [type_id |-> 1, export_version |-> 14, import_version |-> 14]

HeaderBlock_from_bytes(bytes) ==
    LET info == unpack_HHH(Slice(bytes, 8, 14))
    IN  IF ~IsAscii(Slice(bytes, 0, 8)) THEN Failed("UnicodeDecodeError")
        ELSE IF Slice(bytes, 0, 8) # magic_cookie THEN Failed("ParseError")
        ELSE IF info.result # "ok" THEN Failed(info.result)
        ELSE Made("HeaderBlock",
                  [type_id |-> info.values[1], export_version |-> info.values[2],
                   import_version |-> info.values[3]])

\* DnaBlock() and DnaBlock.from_bytes
DnaBlock_init ==
    [topology |-> "linear", strandedness |-> "double",
     is_dam_methylated |-> FALSE, is_dcm_methylated |-> FALSE,
     is_ecoki_methylated |-> FALSE, sequence |-> <<>>]

\* props & mask, for a mask of one bit; and the variant that is true when
\* any bit from the mask upwards is set.
BitSetAny(props, mask) == props >= mask

BitSet(props, mask) == (props \div mask) % 2 = 1

DnaBlock_from_bytes(bytes) ==
    IF bytes = <<>> THEN Failed("IndexError")
    ELSE IF ~IsAscii(Tail(bytes)) THEN Failed("UnicodeDecodeError")
    ELSE Made("DnaBlock",
              [topology |-> IF BitSet(bytes[1], 1) THEN "circular" ELSE "linear",
               strandedness |-> IF BitSet(bytes[1], 2) THEN "double" ELSE "single",
               is_dam_methylated |-> BitSet(bytes[1], 4),
               is_dcm_methylated |-> BitSet(bytes[1], 8),
               is_ecoki_methylated |-> BitSet(bytes[1], 16),
               sequence |-> Tail(bytes)])

\* RestrictionDigestBlock()
RestrictionDigestBlock_init == [unk_1 |-> 1, sites |-> <<>>, unk_2 |-> <<>>]

\* str.split(',') and b','.join
RECURSIVE split(_)
split(str) ==
    LET commas == {k \in 1..Len(str) : str[k] = 44}
        k == CHOOSE k \in commas : \A j \in commas : k <= j
    IN  IF commas = {} THEN <<str>>
        ELSE <<SubSeq(str, 1, k - 1)>> \o split(SubSeq(str, k + 1, Len(str)))

RECURSIVE join(_)
join(xs) ==
    IF xs = <<>> THEN <<>>
    ELSE IF Len(xs) = 1 THEN xs[1]
    ELSE xs[1] \o <<44>> \o join(Tail(xs))

RestrictionDigestBlock_from_bytes(bytes) ==
    LET head == unpack_BI(Slice(bytes, 0, 5))
        n == head.values[2]
    IN  IF head.result # "ok" THEN Failed(head.result)
        ELSE IF ~IsAscii(Slice(bytes, 5, 5 + n)) THEN Failed("UnicodeDecodeError")
        ELSE Made("RestrictionDigestBlock",
                  [unk_1 |-> head.values[1], sites |-> split(Slice(bytes, 5, 5 + n)),
                   unk_2 |-> Slice(bytes, 5 + n, Len(bytes))])

\* cls.from_bytes(content), for the classes modelled here; the XML blocks,
\* the alignment blocks and the protein block are not.  An unparsed block
\* reads nothing from the content: cls().
from_bytes(cls, bytes) ==
    CASE cls = "HeaderBlock" -> HeaderBlock_from_bytes(bytes)
      [] cls = "DnaBlock" -> DnaBlock_from_bytes(bytes)
      [] cls = "RestrictionDigestBlock" -> RestrictionDigestBlock_from_bytes(bytes)
      [] cls \in UnparsedClasses ->
            [result |-> "ok", block |-> Block(cls, 0, Undef, NoAttrs)]

\* etree.tostring of the AlignableSequences element: the text is kept as
\* the list of its parts, the trimStringency value and then the children.
\* An attribute value of None cannot be serialized.
AlignmentsBlock_to_bytes(attrs) ==
    IF attrs.trim_stringency = Undef
    THEN [result |-> "TypeError", bytes |-> <<>>]
    ELSE [result |-> "ok",
          bytes |-> <<CHOOSE t \in attrs.trim_stringency : TRUE>> \o attrs.metadata]

\* An AlignedTraceBlock holding the given ZTR data as its bytes attribute.
AlignedTraceBlock(ztr) ==
    Block("AlignedTraceBlock", block_id("AlignedTraceBlock"), Some(ztr), NoAttrs)

\* block.to_bytes(): the payload, or the exception; an unparsed block gives
\* back its bytes attribute, and an AlignedSequenceBlock packs its id in
\* front of the blocks of its traces.
RECURSIVE bytes_from_blocks(_)
to_bytes(block) ==
    CASE block.cls = "HeaderBlock" ->
            [result |-> "ok",
             bytes |-> magic_cookie \o pack_HHH(block.attrs.type_id,
                                                block.attrs.export_version,
                                                block.attrs.import_version)]
      [] block.cls = "DnaBlock" ->
            [result |-> "ok",
             bytes |-> <<(IF block.attrs.topology = "circular" THEN 1 ELSE 0)
                         + (IF block.attrs.strandedness = "double" THEN 2 ELSE 0)
                         + (IF block.attrs.is_dam_methylated THEN 4 ELSE 0)
                         + (IF block.attrs.is_dcm_methylated THEN 8 ELSE 0)
                         + (IF block.attrs.is_ecoki_methylated THEN 16 ELSE 0)>>
                       \o block.attrs.sequence]
      [] block.cls = "RestrictionDigestBlock" ->
            [result |-> "ok",
             bytes |-> pack_BI(block.attrs.unk_1, Len(join(block.attrs.sites)))
                       \o join(block.attrs.sites) \o block.attrs.unk_2]
      [] block.cls \in UnparsedClasses ->
            IF block.bytes = Undef THEN [result |-> "AttributeError", bytes |-> <<>>]
            ELSE [result |-> "ok", bytes |-> CHOOSE b \in block.bytes : TRUE]
      [] block.cls = "AlignmentsBlock" -> AlignmentsBlock_to_bytes(block.attrs)
      [] block.cls = "AlignedSequenceBlock" ->
            LET traces == bytes_from_blocks(
                              [k \in 1..Len(block.attrs.traces) |->
                                  AlignedTraceBlock(block.attrs.traces[k])])
            IN  IF block.attrs.id = NoId
                THEN [result |-> "struct.error", bytes |-> <<>>]
                ELSE IF traces.result # "ok" THEN traces
                ELSE [result |-> "ok",
                      bytes |-> pack_I(block.attrs.id) \o traces.bytes]

\* parser.blocks_from_bytes, the loop from offset i on.  No from_bytes here
\* raises SnapGeneError, so the except clause is never entered; the other
\* exceptions pass through it.
RECURSIVE blocks_from_bytes(_, _, _)
blocks_from_bytes(bytes, i, out) ==
    LET j == i + 5
        head == unpack_BI(Slice(bytes, i, j))
        id == head.values[1]
        size == head.values[2]
        content == Slice(bytes, j, j + size)
        made == from_bytes(block_classes(id), content)
    IN  IF i >= Len(bytes) THEN [result |-> "ok", blocks |-> out]
        ELSE IF head.result # "ok" THEN [result |-> head.result, blocks |-> <<>>]
        ELSE IF made.result # "ok" THEN [result |-> made.result, blocks |-> <<>>]
        ELSE blocks_from_bytes(bytes, j + size,
                 Append(out, [made.block EXCEPT !.block_id = id,
                                                   !.bytes = Some(content)]))

\* parser.bytes_from_block, and the variant that writes the length of the
\* bytes attribute instead of the length of the payload.
bytes_from_blockLenOfAttr(block) ==
    LET payload == to_bytes(block)
        attr == IF block.bytes = Undef THEN <<>> ELSE CHOOSE b \in block.bytes : TRUE
    IN  IF payload.result # "ok" THEN payload
        ELSE [result |-> "ok",
              bytes |-> pack_BI(block.block_id, Len(attr) + 1) \o payload.bytes]

bytes_from_block(block) ==
    LET payload == to_bytes(block)
    IN  IF payload.result # "ok" THEN payload
        ELSE [result |-> "ok",
              bytes |-> pack_BI(block.block_id, Len(payload.bytes)) \o payload.bytes]

\* parser.bytes_from_blocks
bytes_from_blocks(bs) ==
    LET first == bytes_from_block(Head(bs))
        rest == bytes_from_blocks(Tail(bs))
    IN  IF bs = <<>> THEN [result |-> "ok", bytes |-> <<>>]
        ELSE IF first.result # "ok" THEN first
        ELSE IF rest.result # "ok" THEN rest
        ELSE [result |-> "ok", bytes |-> first.bytes \o rest.bytes]

(***************************************************************************)
(* Reading and writing the document.                                       *)
(***************************************************************************)
\* A block of the document as the codec sees it.  The blocks of the
\* documents written here were made by cls() and have no bytes attribute;
\* only the sequence of a DnaBlock, the metadata of an AlignmentsBlock and
\* the id and traces of an AlignedSequenceBlock have been set since, so
\* the trim_stringency of an AlignmentsBlock is still None.
AsBlock(b) ==
    Block(b.cls, block_id(b.cls), Undef,
          CASE b.cls = "HeaderBlock" -> HeaderBlock_init
            [] b.cls = "DnaBlock" -> [DnaBlock_init EXCEPT !.sequence = encode(b.sequence)]
            [] b.cls = "RestrictionDigestBlock" -> RestrictionDigestBlock_init
            [] b.cls = "AlignmentsBlock" ->
                  [trim_stringency |-> Undef, metadata |-> b.metadata]
            [] b.cls = "AlignedSequenceBlock" -> [id |-> b.id, traces |-> b.traces]
            [] OTHER -> NoAttrs)

\* parser.file_from_blocks: the bytes, then Path(path).write_bytes.
file_from_blocks(fs, path, bs) ==
    LET out == bytes_from_blocks([k \in 1..Len(bs) |-> AsBlock(bs[k])])
    IN  IF out.result # "ok" THEN [result |-> out.result, files |-> fs]
        ELSE [result |-> "ok", files |-> [fs EXCEPT ![path] = out.bytes]]

\* A variant of write that keeps an explicit path as the input_path.
writeBinding(bs, ip, fs, path) ==
    LET target == IF path = None THEN ip ELSE path
        out == file_from_blocks(fs, target, bs)
    IN  IF target = None THEN [result |-> "ValueError", files |-> fs, input_path |-> ip]
        ELSE IF bs = <<>> THEN [result |-> "IndexError", files |-> fs, input_path |-> ip]
        ELSE IF bs[1].cls # "HeaderBlock"
        THEN [result |-> "AssertionError", files |-> fs, input_path |-> ip]
        ELSE [result |-> out.result, files |-> out.files,
              input_path |-> IF out.result = "ok" THEN target ELSE ip]

\* SnapGene.write(path): the files and the input_path it leaves.
write(bs, ip, fs, path) ==
    LET target == IF path = None THEN ip ELSE path
        out == file_from_blocks(fs, target, bs)
    IN  IF target = None THEN [result |-> "ValueError", files |-> fs, input_path |-> ip]
        ELSE IF bs = <<>> THEN [result |-> "IndexError", files |-> fs, input_path |-> ip]
        ELSE IF bs[1].cls # "HeaderBlock"
        THEN [result |-> "AssertionError", files |-> fs, input_path |-> ip]
        ELSE [result |-> out.result, files |-> out.files, input_path |-> ip]

\* parser.blocks_from_file(path): Path(path).read_bytes, then
\* blocks_from_bytes.
blocks_from_file(fs, path) ==
    IF fs[path] = NoFile THEN [result |-> "FileNotFoundError", blocks |-> <<>>]
    ELSE blocks_from_bytes(fs[path], 0, <<>>)

\* blocks_from_file is defined with one parameter, and SnapGene.parse calls
\* it with two positional arguments.
blocks_from_file_parameters == 1
parse_arguments == 2

\* SnapGene.parse(path).  The call of blocks_from_file raises TypeError for
\* its argument count before a file is read; the assignments after it are
\* not reached.
parse(bs, ip, fs, path) ==
    LET read == blocks_from_file(fs, path)
    IN  IF parse_arguments # blocks_from_file_parameters
        THEN [result |-> "TypeError", blocks |-> bs, input_path |-> ip]
        ELSE IF read.result # "ok"
        THEN [result |-> read.result, blocks |-> bs, input_path |-> ip]
        ELSE [result |-> "ok", blocks |-> read.blocks, input_path |-> path]

(***************************************************************************)
(* The state machine: a Fresh document, then any sequence of method calls. *)
(***************************************************************************)
Indexes == 0..MaxTraces

\* The record of a call; arguments a method does not take are None.
Call(op, i, arg, path, name, reverse, tc, pre, result) ==
    [op |-> op, i |-> i, arg |-> arg, path |-> path, name |-> name,
     reverse |-> reverse, tc |-> tc, pre |-> pre, result |-> result]

\* No call is being looked at.
Idle == Call("idle", 0, NoneArg, NoneArg, None, FALSE, "ok", <<>>, "ok")

\* SnapGene(): a Fresh document.
Init ==
    /\ blocks = reset
    /\ input_path = None
    /\ files = NoFiles
    /\ call = Idle

\* A method runs to its end on the document and leaves r; documents stay
\* within MaxTraces traces.
Returns(r, c) ==
    /\ call = Idle
    /\ count_traces(r.blocks) <= MaxTraces
    /\ blocks' = r.blocks
    /\ call' = [c EXCEPT !.pre = blocks, !.result = r.result]
    /\ UNCHANGED <<input_path, files>>

InsertTrace ==
    \E i \in Indexes, path \in Paths, name \in OptNames, tc \in TranscoderOutcomes :
        Returns(insert_trace(blocks, i, path, name, tc),
                Call("insert_trace", i, NoneArg, path, name, FALSE, tc, blocks, "ok"))

AppendTrace ==
    \E path \in Paths, name \in OptNames, tc \in TranscoderOutcomes :
        Returns(append_trace(blocks, path, name, tc),
                Call("append_trace", 0, NoneArg, path, name, FALSE, tc, blocks, "ok"))

PrependTrace ==
    \E path \in Paths, name \in OptNames, tc \in TranscoderOutcomes :
        Returns(prepend_trace(blocks, path, name, tc),
                Call("prepend_trace", 0, NoneArg, path, name, FALSE, tc, blocks, "ok"))

AddTrace ==
    \E path \in PathArgs, name \in OptNames, tc \in TranscoderOutcomes :
        Returns(add_trace(blocks, path, name, tc),
                Call("add_trace", 0, NoneArg, path, name, FALSE, tc, blocks, "ok"))

RemoveTrace ==
    \E arg \in NameArgs :
        Returns(remove_trace(blocks, arg),
                Call("remove_trace", 0, arg, NoneArg, None, FALSE, "ok", blocks, "ok"))

RenameTrace ==
    \E old \in Names, new \in Names :
        Returns(rename_trace(blocks, old, new),
                Call("rename_trace", 0, Str(old), NoneArg, new, FALSE, "ok", blocks, "ok"))

ReplaceTrace ==
    \E arg \in NameArgs, path \in Paths, name \in OptNames, tc \in TranscoderOutcomes :
        Returns(replace_trace(blocks, arg, path, name, tc),
                Call("replace_trace", 0, arg, path, name, FALSE, tc, blocks, "ok"))

PickTrace ==
    \E arg \in NameArgs :
        Returns(pick_trace(blocks, arg),
                Call("pick_trace", 0, arg, NoneArg, None, FALSE, "ok", blocks, "ok"))

SortTraces ==
    \E reverse \in BOOLEAN :
        Returns(sort_traces(blocks, reverse),
                Call("sort_traces", 0, NoneArg, NoneArg, None, reverse, "ok", blocks, "ok"))

ClearTraces ==
    Returns(clear_traces(blocks),
            Call("clear_traces", 0, NoneArg, NoneArg, None, FALSE, "ok", blocks, "ok"))

\* The caller is done with the outcome of the call; the document stays.
Return ==
    /\ call # Idle
    /\ call' = Idle
    /\ UNCHANGED <<blocks, input_path, files>>

\* The methods that add, remove, reorder or rename traces.
Next ==
    \/ Return
    \/ InsertTrace
    \/ AppendTrace
    \/ PrependTrace
    \/ AddTrace
    \/ RemoveTrace
    \/ RenameTrace
    \/ ReplaceTrace
    \/ SortTraces
    \/ ClearTraces

Spec == Init /\ [][Next]_vars

\* The same with pick_trace, which sets is_visible.
NextPick ==
    \/ Next
    \/ PickTrace

SpecPick == Init /\ [][NextPick]_vars

(***************************************************************************)
(* The feature methods: a Fresh document, then set_sequence, add_feature,  *)
(* remove_feature and clear_features in any order.                         *)
(***************************************************************************)
MaxFeatures == 3

\* The sequences given to set_sequence: AaA and CA.
DnaSeqs == {<<"A", "a", "A">>, <<"C", "A">>}

\* The anchors given to add_feature: none, AA and c.
Anchors == {None, <<"A", "A">>, <<"c">>}

FeatureNames == {"X", "Y"}

\* The Feature objects handed to add_feature: a name and no, one or two
\* segments.  Each call is given a new object.
Segment23 == FeatureSegment(Some(<<2, 3>>))
Segment45 == FeatureSegment(Some(<<4, 5>>))
Features ==
    {[name |-> n, segments |-> sg] :
        n \in FeatureNames, sg \in {<<>>, <<Segment23>>, <<Segment23, Segment45>>}}
NoFeature == [name |-> "", segments |-> <<>>]

\* The record of a call of a feature method.
FCall(op, feature, seq, name, pre, result) ==
    [op |-> op, feature |-> feature, seq |-> seq, name |-> name,
     pre |-> pre, result |-> result]

\* As Returns; documents stay within MaxFeatures features.
ReturnsF(r, c) ==
    /\ count_features(r.blocks) <= MaxFeatures
    /\ Returns(r, c)

SetSequence ==
    \E value \in DnaSeqs :
        ReturnsF(set_sequence(blocks, value),
                 FCall("set_sequence", NoFeature, value, "", blocks, "ok"))

AddFeature ==
    \E feature \in Features, seq \in Anchors :
        ReturnsF(add_feature(blocks, feature, seq),
                 FCall("add_feature", feature, seq, "", blocks, "ok"))

RemoveFeature ==
    \E name \in FeatureNames :
        ReturnsF(remove_feature(blocks, name),
                 FCall("remove_feature", NoFeature, None, name, blocks, "ok"))

ClearFeatures ==
    ReturnsF(clear_features(blocks),
             FCall("clear_features", NoFeature, None, "", blocks, "ok"))

NextFeatures ==
    \/ Return
    \/ SetSequence
    \/ AddFeature
    \/ RemoveFeature
    \/ ClearFeatures

SpecFeatures == Init /\ [][NextFeatures]_vars

(***************************************************************************)
(* The codec functions of parser.py, applied to byte streams: every stream *)
(* of up to MaxRecords records, and every stream cut short of one.         *)
(***************************************************************************)
MaxRecords == 2

\* The type tags of the records: 2 and 4 have no class in the registry, 1 is
\* the unparsed CompressedDnaBlock and 9 the HeaderBlock.
RecordTags == {1, 2, 4, 9}

\* The payloads of the records: empty, one byte, b'Hi', and the payload of
\* HeaderBlock().
HeaderPayload == magic_cookie \o pack_HHH(1, 14, 14)
Payloads == {<<>>, <<7>>, <<72, 105>>, HeaderPayload}

\* The bytes of a record, and of a sequence of [tag, payload] records.
Record(tag, payload) == pack_BI(tag, Len(payload)) \o payload

RECURSIVE Stream(_)
Stream(recs) ==
    IF recs = <<>> THEN <<>>
    ELSE Record(Head(recs).tag, Head(recs).payload) \o Stream(Tail(recs))

\* The sequences of at most MaxRecords records over the given tags.
RecordSeqs(tags) ==
    UNION {[1..n -> [tag : tags, payload : Payloads]] : n \in 0..MaxRecords}

\* The streams given to blocks_from_bytes: the well-formed ones and all
\* their prefixes.
Streams ==
    UNION {{SubSeq(Stream(recs), 1, k) : k \in 0..Len(Stream(recs))} :
              recs \in RecordSeqs(RecordTags)}

\* The record of a call of a codec function: the stream, the blocks read
\* from it and the bytes written from them.
CCall(op, bytes, out, encoded, result) ==
    [op |-> op, bytes |-> bytes, out |-> out, encoded |-> encoded,
     result |-> result]

BlocksFromBytes ==
    /\ call = Idle
    /\ \E bytes \in Streams :
          LET r == blocks_from_bytes(bytes, 0, <<>>)
          IN  call' = CCall("blocks_from_bytes", bytes, r.blocks, <<>>, r.result)
    /\ UNCHANGED <<blocks, input_path, files>>

\* The blocks just read are written again.
BytesFromBlocks ==
    /\ call.op = "blocks_from_bytes"
    /\ call.result = "ok"
    /\ LET r == bytes_from_blocks(call.out)
       IN  call' = CCall("bytes_from_blocks", call.bytes, call.out, r.bytes, r.result)
    /\ UNCHANGED <<blocks, input_path, files>>

NextCodec ==
    \/ Return
    \/ BlocksFromBytes
    \/ BytesFromBlocks

SpecCodec == Init /\ [][NextCodec]_vars

(***************************************************************************)
(* The document and its files: the block methods, reset, parse and write,  *)
(* from a Fresh document next to a file that some program left at PathA.   *)
(***************************************************************************)
MaxBlocks == 3

\* The classes given to the block methods.
DocClasses == {"HeaderBlock", "RestrictionDigestBlock", "DnaBlock"}

\* The file at PathA: none, a file of HeaderBlock() and a record with the
\* unregistered tag 2, a file whose first record has the header's tag but
\* not its magic cookie, and a file whose first record has the tag 2.
GoodFile == Record(9, HeaderPayload) \o Record(2, <<72, 105>>)
BadMagicFile == Record(9, <<72, 105>>) \o Record(2, <<72, 105>>)
NoHeaderFile == Record(2, <<72, 105>>) \o Record(9, HeaderPayload)
InitialFiles == {NoFile, GoodFile, BadMagicFile, NoHeaderFile}

\* The paths given to parse and to write.
ParsePaths == FilePaths
WritePaths == {None, PathB}

InitDoc ==
    /\ blocks = reset
    /\ input_path = None
    /\ \E f \in InitialFiles : files = [NoFiles EXCEPT ![PathA] = f]
    /\ call = Idle

\* The record of a call of a document method: its arguments, the document
\* and the files it started from, the index of the block it found, and the
\* call made just before it when no other statement came in between, and
\* the one before that.
DCall(op, cls, path, pre, result) ==
    [op |-> op, cls |-> cls, path |-> path, pre |-> pre,
     pre_input_path |-> input_path, pre_files |-> files, found |-> 0,
     prev |-> [op |-> call.op, path |-> call.path, result |-> call.result,
               prev |-> IF call.op \in {"parse", "write"}
                        THEN [op |-> call.prev.op, path |-> call.prev.path,
                              result |-> call.prev.result]
                        ELSE [op |-> "idle", path |-> None, result |-> "ok"]],
     result |-> result]

\* A block method runs to its end; documents stay within MaxBlocks blocks.
ReturnsD(r, c) ==
    /\ call = Idle
    /\ Len(r.blocks) <= MaxBlocks
    /\ blocks' = r.blocks
    /\ call' = [c EXCEPT !.result = r.result]
    /\ UNCHANGED <<input_path, files>>

MakeBlock ==
    \E cls \in DocClasses :
        ReturnsD([result |-> "ok", blocks |-> make_block(blocks, cls)],
                 DCall("make_block", cls, None, blocks, "ok"))

FindBlock ==
    \E cls \in DocClasses :
        /\ call = Idle
        /\ call' = [DCall("find_block", cls, None, blocks, "ok") EXCEPT
                       !.result = find_block(blocks, cls).result,
                       !.found = find_block(blocks, cls).idx]
        /\ UNCHANGED <<blocks, input_path, files>>

FindOrMakeBlock ==
    \E cls \in DocClasses :
        /\ call = Idle
        /\ Len(find_or_make_block(blocks, cls).blocks) <= MaxBlocks
        /\ blocks' = find_or_make_block(blocks, cls).blocks
        /\ call' = [DCall("find_or_make_block", cls, None, blocks, "ok") EXCEPT
                       !.result = find_or_make_block(blocks, cls).result,
                       !.found = find_or_make_block(blocks, cls).idx]
        /\ UNCHANGED <<input_path, files>>

RemoveBlocks ==
    \E cls \in DocClasses :
        ReturnsD([result |-> "ok", blocks |-> remove_blocks(blocks, cls)],
                 DCall("remove_blocks", cls, None, blocks, "ok"))

Reset ==
    /\ call = Idle
    /\ blocks' = reset
    /\ input_path' = None
    /\ call' = DCall("reset", "", None, blocks, "ok")
    /\ UNCHANGED files

\* parse, called after a Return or as the statement right after a write.
Parse ==
    \E path \in ParsePaths :
        /\ call = Idle \/ call.op = "write"
        /\ blocks' = parse(blocks, input_path, files, path).blocks
        /\ input_path' = parse(blocks, input_path, files, path).input_path
        /\ call' = DCall("parse", "", path, blocks,
                         parse(blocks, input_path, files, path).result)
        /\ UNCHANGED files

\* write, called after a Return or as the statement right after a parse or
\* a write.
Write ==
    \E path \in WritePaths :
        /\ call = Idle \/ call.op \in {"parse", "write"}
        /\ files' = write(blocks, input_path, files, path).files
        /\ input_path' = write(blocks, input_path, files, path).input_path
        /\ call' = DCall("write", "", path, blocks,
                         write(blocks, input_path, files, path).result)
        /\ UNCHANGED blocks

NextDoc ==
    \/ Return
    \/ MakeBlock
    \/ FindBlock
    \/ FindOrMakeBlock
    \/ RemoveBlocks
    \/ Reset
    \/ Parse
    \/ Write

SpecDoc == InitDoc /\ [][NextDoc]_vars

(***************************************************************************)
(* The sequence block: DnaBlock.to_bytes and DnaBlock.from_bytes on every  *)
(* combination of the five flags, every first byte and short sequences.    *)
(***************************************************************************)
MaxSeqLen == 2

\* The ASCII sequences: b'A' and b'c' in every order, up to MaxSeqLen bytes.
SeqBytes == UNION {[1..n -> {65, 99}] : n \in 0..MaxSeqLen}

\* The DnaBlock objects: every value of the two str attributes that the
\* code tells apart and of the three bool attributes.
DnaAttrs ==
    [topology : {"linear", "circular"}, strandedness : {"single", "double"},
     is_dam_methylated : BOOLEAN, is_dcm_methylated : BOOLEAN,
     is_ecoki_methylated : BOOLEAN, sequence : SeqBytes]

\* The payloads given to from_bytes: any first byte, then a sequence; and
\* the empty payload.
DnaPayloads == {<<>>} \cup {<<props>> \o s : props \in 0..255, s \in SeqBytes}

\* The record of a call on a sequence block: the attributes of the block
\* written, the payload, and the attributes of the block read.
NCall(op, attrs, bytes, decoded, result) ==
    [op |-> op, attrs |-> attrs, bytes |-> bytes, decoded |-> decoded,
     result |-> result]

DnaToBytes ==
    /\ call = Idle
    /\ \E attrs \in DnaAttrs :
          LET r == to_bytes(Block("DnaBlock", 0, Undef, attrs))
          IN  call' = NCall("to_bytes", attrs, r.bytes, NoAttrs, r.result)
    /\ UNCHANGED <<blocks, input_path, files>>

DnaFromBytes ==
    /\ call = Idle
    /\ \E bytes \in DnaPayloads :
          LET r == DnaBlock_from_bytes(bytes)
          IN  call' = NCall("from_bytes", NoAttrs, bytes, r.block.attrs, r.result)
    /\ UNCHANGED <<blocks, input_path, files>>

\* DnaBlock.from_bytes(block.to_bytes())
DnaReadBack ==
    /\ call.op = "to_bytes"
    /\ call.result = "ok"
    /\ LET r == DnaBlock_from_bytes(call.bytes)
       IN  call' = NCall("read_back", call.attrs, call.bytes, r.block.attrs, r.result)
    /\ UNCHANGED <<blocks, input_path, files>>

NextDna ==
    \/ Return
    \/ DnaToBytes
    \/ DnaFromBytes
    \/ DnaReadBack

SpecDna == Init /\ [][NextDna]_vars

(***************************************************************************)
(* The structured records: the classes that derive from Xml declare their  *)
(* fields as attributes and child elements of one XML element.  An element *)
(* is its tag, its attributes in the order they were set (key and text),   *)
(* its text and its children; a text is the sequence of its characters.    *)
(***************************************************************************)
Element(tag, attrib, text, children) ==
    [tag |-> tag, attrib |-> attrib, text |-> text, children |-> children]

\* root.attrib[key] = value, for a key that is not yet there; key in
\* root.attrib; root.attrib[key].
SetAttrib(element, key, value) ==
    [element EXCEPT !.attrib = Append(@, [key |-> key, value |-> value])]
AttribKeys(element) == {element.attrib[k].key : k \in 1..Len(element.attrib)}
AttribValue(element, key) ==
    element.attrib[CHOOSE k \in 1..Len(element.attrib) : element.attrib[k].key = key].value

\* etree.SubElement(root, tag) and root.append(child)
AppendChild(element, child) == [element EXCEPT !.children = Append(@, child)]
ChildTags(element) == {element.children[k].tag : k \in 1..Len(element.children)}

\* str(n) and int(str) for decimal numerals; int raises ValueError for any
\* other text.
Digits == <<"0", "1", "2", "3", "4", "5", "6", "7", "8", "9">>

RECURSIVE str_int(_)
str_int(n) ==
    IF n < 0 THEN <<"-">> \o str_int(0 - n)
    ELSE IF n < 10 THEN <<Digits[n + 1]>>
    ELSE str_int(n \div 10) \o <<Digits[(n % 10) + 1]>>

DigitValue(c) == (CHOOSE d \in 1..10 : Digits[d] = c) - 1
IsNumeral(s) == s # <<>> /\ \A k \in 1..Len(s) : \E d \in 1..10 : Digits[d] = s[k]

RECURSIVE NumeralValue(_)
NumeralValue(s) ==
    IF s = <<>> THEN 0
    ELSE NumeralValue(SubSeq(s, 1, Len(s) - 1)) * 10 + DigitValue(s[Len(s)])

int_str(s) ==
    IF IsNumeral(s) THEN [result |-> "ok", value |-> NumeralValue(s)]
    ELSE IF s # <<>> /\ s[1] = "-" /\ IsNumeral(Tail(s))
    THEN [result |-> "ok", value |-> 0 - NumeralValue(Tail(s))]
    ELSE [result |-> "ValueError", value |-> 0]

\* str.split(sep) for a separator of one character
RECURSIVE split_on(_, _)
split_on(s, sep) ==
    LET seps == {k \in 1..Len(s) : s[k] = sep}
        k == CHOOSE k \in seps : \A j \in seps : k <= j
    IN  IF seps = {} THEN <<s>>
        ELSE <<SubSeq(s, 1, k - 1)>> \o split_on(SubSeq(s, k + 1, Len(s)), sep)

\* FeatureSegment.RangeAttrib: the text 'i-j' and the pair it is read as.
\* Unpacking anything but two numbers into i, j raises ValueError.
RangeAttrib_from_str(s) ==
    LET parts == split_on(s, "-")
        i == int_str(parts[1])
        j == int_str(parts[2])
    IN  IF \E k \in 1..Len(parts) : int_str(parts[k]).result # "ok"
        THEN [result |-> "ValueError", value |-> <<0, 0>>]
        ELSE IF Len(parts) # 2 THEN [result |-> "ValueError", value |-> <<0, 0>>]
        ELSE [result |-> "ok", value |-> <<i.value - 1, j.value>>]

RangeAttrib_to_str(value) == str_int(value[1] + 1) \o <<"-">> \o str_int(value[2])

\* The from_str and to_str of the attribute parsers TextAttrib, BoolAttrib,
\* IntAttrib and RangeAttrib.  BoolAttrib looks the text up in a dict of
\* '0' and '1'.
from_str(parser, s) ==
    CASE parser = "TextAttrib" -> [result |-> "ok", value |-> s]
      [] parser = "BoolAttrib" ->
            IF s \in {<<"0">>, <<"1">>} THEN [result |-> "ok", value |-> s = <<"1">>]
            ELSE [result |-> "KeyError", value |-> FALSE]
      [] parser = "IntAttrib" -> int_str(s)
      [] parser = "RangeAttrib" -> RangeAttrib_from_str(s)

to_str(parser, value) ==
    CASE parser = "TextAttrib" -> value
      [] parser = "BoolAttrib" -> IF value THEN <<"1">> ELSE <<"0">>
      [] parser = "IntAttrib" -> str_int(value)
      [] parser = "RangeAttrib" -> RangeAttrib_to_str(value)

\* The declarations of a class: xml_attrib_defs and xml_subtag_defs give a
\* field its name, the attribute key or child tag it is written as, its
\* parser and, for some, a default.
AttribDef(name, key, parser) ==
    [name |-> name, key |-> key, parser |-> parser, default |-> Undef]
SubtagDef(name, key, parser, default) ==
    [name |-> name, key |-> key, parser |-> parser, default |-> default]

XmlClasses == {"FeatureSegment", "Feature", "NotesBlock"}

xml_tag(cls) ==
    CASE cls = "FeatureSegment" -> "Segment"
      [] cls = "Feature" -> "Feature"
      [] cls = "NotesBlock" -> "Notes"

xml_attrib_defs(cls) ==
    CASE cls = "FeatureSegment" ->
            <<AttribDef("name", "name", "TextAttrib"),
              AttribDef("range", "range", "RangeAttrib"),
              AttribDef("display", "type", "TextAttrib"),
              AttribDef("color", "color", "TextAttrib"),
              AttribDef("is_translated", "translated", "BoolAttrib"),
              AttribDef("translation_start_number",
                        "translationNumberingStartsFrom", "IntAttrib")>>
      [] cls = "Feature" ->
            <<AttribDef("id", "recentID", "IntAttrib"),
              AttribDef("name", "name", "TextAttrib"),
              AttribDef("type", "type", "TextAttrib"),
              AttribDef("directionality", "directionality", "DirectionalityAttrib"),
              AttribDef("reading_frame", "readingFrame", "IntAttrib"),
              AttribDef("cleavage_arrows", "cleavageArrows", "CleavageArrowsAttrib"),
              AttribDef("allow_segment_overlaps", "allowSegmentOverlaps", "BoolAttrib"),
              AttribDef("swapped_segment_numbering", "swappedSegmentNumbering",
                        "BoolAttrib"),
              AttribDef("max_run_on", "maxRunOn", "IntAttrib"),
              AttribDef("max_fused_run_on", "maxFusedRunOn", "IntAttrib"),
              AttribDef("detection_mode", "detectionMode", "TextAttrib"),
              AttribDef("genetic_code_id", "geneticCode", "TextAttrib"),
              AttribDef("first_codon_met", "translateFirstCodonAsMet", "BoolAttrib"),
              AttribDef("consecutive_translation_numbering",
                        "consecutiveTranslationNumbering", "BoolAttrib"),
              AttribDef("consecutive_numbering_start",
                        "consecutiveNumberingStartsFrom", "IntAttrib"),
              AttribDef("translated_mw", "translationMW", "FloatAttrib"),
              AttribDef("hits_stop_codon", "hitsStopCodon", "BoolAttrib")>>
      [] cls = "NotesBlock" -> <<>>

xml_subtag_defs(cls) ==
    CASE cls = "FeatureSegment" -> <<>>
      [] cls = "Feature" ->
            <<SubtagDef("segments", "Segment", "SegmentTag", Some(<<>>)),
              SubtagDef("qualifiers", "Q", "QualifierTag", Some(<<>>))>>
      [] cls = "NotesBlock" ->
            <<SubtagDef("uuid", "UUID", "TextTag", Undef),
              SubtagDef("type", "Type", "TextTag", Undef),
              SubtagDef("author", "CreatedBy", "TextTag", Undef),
              SubtagDef("description", "Description", "HtmlTag", Undef),
              SubtagDef("comments", "Comments", "HtmlTag", Undef),
              SubtagDef("references", "References", "ReferencesTag", Undef),
              SubtagDef("transformed_into", "TransformedInto", "TextTag", Undef),
              SubtagDef("is_confirmed_experimentally", "ConfirmedExperimentally",
                        "BoolTag", Undef),
              SubtagDef("organism", "Organism", "TextTag", Undef),
              SubtagDef("accession_number", "AccessionNumber", "TextTag", Undef),
              SubtagDef("code_number", "CodeNumber", "TextTag", Undef),
              SubtagDef("sequence_class", "SequenceClass", "TextTag", Undef),
              SubtagDef("custom_map_label", "CustomMapLabel", "TextTag", Undef),
              SubtagDef("use_custom_map_label", "UseCustomMapLabel", "BoolTag", Undef),
              SubtagDef("date_created", "Created", "DateTag", Undef),
              SubtagDef("date_last_modified", "LastModified", "DateTag", Undef)>>

\* What Xml.__init_subclass__ derives from the declarations.
Defs(cls) == xml_attrib_defs(cls) \o xml_subtag_defs(cls)
defined_names(cls) == {Defs(cls)[k].name : k \in 1..Len(Defs(cls))}
DefOf(cls, name) == Defs(cls)[CHOOSE k \in 1..Len(Defs(cls)) : Defs(cls)[k].name = name]
attrib_keys(cls) == {xml_attrib_defs(cls)[k].key : k \in 1..Len(xml_attrib_defs(cls))}
subtag_keys(cls) == {xml_subtag_defs(cls)[k].key : k \in 1..Len(xml_subtag_defs(cls))}
ByKey(defs, key) == defs[CHOOSE k \in 1..Len(defs) : defs[k].key = key]

\* An object of an Xml class: for each declared name, Undef while the
\* object has no such attribute and Some(value) when it has.  Xml.__init__
\* sets the fields that have a default to a copy of it.
Xml_init(cls) ==
    [cls |-> cls, fields |-> [n \in defined_names(cls) |-> DefOf(cls, n).default]]

hasattr(obj, name) == obj.fields[name] # Undef
getattr(obj, name) == CHOOSE v \in obj.fields[name] : TRUE
setattr(obj, name, value) == [obj EXCEPT !.fields[name] = Some(value)]

\* del obj.name, and a variant that leaves the attribute where it is.
delattrKeep(obj, name) ==
    IF ~hasattr(obj, name) THEN [result |-> "AttributeError", obj |-> obj]
    ELSE [result |-> "ok", obj |-> obj]

delattr(obj, name) ==
    IF ~hasattr(obj, name) THEN [result |-> "AttributeError", obj |-> obj]
    ELSE [result |-> "ok", obj |-> [obj EXCEPT !.fields[name] = Undef]]

\* has_default_value inside Xml.to_xml
has_default_value(obj, name) ==
    /\ DefOf(obj.cls, name).default # Undef
    /\ obj.fields[name] = DefOf(obj.cls, name).default

\* The values of a qualifier: an int, a str, or a list of these; and the
\* qualifiers, a dict, as its items in insertion order.
IntV(n) == [kind |-> "int", int |-> n, text |-> <<>>, items |-> <<>>]
StrV(s) == [kind |-> "text", int |-> 0, text |-> s, items |-> <<>>]
ListV(items) == [kind |-> "list", int |-> 0, text |-> <<>>, items |-> items]
Item(name, value) == [name |-> name, value |-> value]

\* more_itertools.always_iterable: a list as it is, a str or an int as the
\* one item.
always_iterable(value) == IF value.kind = "list" THEN value.items ELSE <<value>>

\* The <V> element QualifierTag.to_xml makes for one scalar: no attribute
\* for '', else the attribute data_formats[type(value_i)] with str(value_i).
VElement(value_i) ==
    IF value_i.kind = "text" /\ value_i.text = <<>> THEN Element("V", <<>>, Undef, <<>>)
    ELSE SetAttrib(Element("V", <<>>, Undef, <<>>), value_i.kind,
                   IF value_i.kind = "int" THEN str_int(value_i.int) ELSE value_i.text)

QElement(tag, item) ==
    LET scalars == always_iterable(item.value)
    IN  Element(tag, <<[key |-> "name", value |-> item.name]>>, Undef,
                [k \in 1..Len(scalars) |-> VElement(scalars[k])])

\* Feature.QualifierTag.to_xml(parent, tag, values)
QualifierTag_to_xml(parent, tag, values) ==
    [parent EXCEPT !.children = @ \o [k \in 1..Len(values) |-> QElement(tag, values[k])]]

\* get_value inside Feature.QualifierTag.from_xml
get_value(sub) ==
    IF sub.attrib = <<>> THEN [result |-> "ok", value |-> StrV(<<>>)]
    ELSE IF Len(sub.attrib) # 1 THEN [result |-> "AssertionError", value |-> StrV(<<>>)]
    ELSE IF sub.attrib[1].key = "int"
    THEN LET n == int_str(sub.attrib[1].value)
         IN  [result |-> n.result, value |-> IntV(n.value)]
    ELSE [result |-> "ok", value |-> StrV(sub.attrib[1].value)]

\* Feature.QualifierTag.from_xml(element): the dict {name: value}.  With
\* exactly one child the value is that of element.find('V'), which is None
\* when the child is no <V>; otherwise it is the list of the values of the
\* <V> children.
QualifierTag_from_xml(element) ==
    LET vs == SelectSeq(element.children, LAMBDA e : e.tag = "V")
        got == [k \in 1..Len(vs) |-> get_value(vs[k])]
        bad == {k \in 1..Len(vs) : got[k].result # "ok"}
        first == CHOOSE k \in bad : \A j \in bad : k <= j
        name == AttribValue(element, "name")
    IN  IF "name" \notin AttribKeys(element) THEN [result |-> "KeyError", value |-> <<>>]
        ELSE IF Len(element.children) = 1 /\ vs = <<>>
        THEN [result |-> "AttributeError", value |-> <<>>]
        ELSE IF bad # {} THEN [result |-> got[first].result, value |-> <<>>]
        ELSE IF Len(element.children) = 1
        THEN [result |-> "ok", value |-> <<Item(name, got[1].value)>>]
        ELSE [result |-> "ok",
              value |-> <<Item(name, ListV([k \in 1..Len(vs) |-> got[k].value]))>>]

\* dict.update: the value of a key that is there is replaced, a new key is
\* added at the end.
RECURSIVE update(_, _)
update(d, e) ==
    LET at == {k \in 1..Len(d) : d[k].name = Head(e).name}
        k == CHOOSE k \in at : TRUE
    IN  IF e = <<>> THEN d
        ELSE IF at = {} THEN update(Append(d, Head(e)), Tail(e))
        ELSE update([d EXCEPT ![k] = Head(e)], Tail(e))

\* Xml.to_xml: the declared attributes in the order of their declaration,
\* then the declared child elements; a field the object does not have and
\* a field that has its default value are passed over.  A parser whose
\* to_xml takes two parameters fills the child made for it, one with three
\* parameters makes the children itself.
RECURSIVE to_xml(_)
RECURSIVE AttribsToXml(_, _, _)
RECURSIVE SubtagsToXml(_, _, _)

AttribsToXml(obj, k, root) ==
    LET defs == xml_attrib_defs(obj.cls)
        d == defs[k]
    IN  IF k > Len(defs) THEN root
        ELSE IF ~hasattr(obj, d.name) \/ has_default_value(obj, d.name)
        THEN AttribsToXml(obj, k + 1, root)
        ELSE AttribsToXml(obj, k + 1,
                 SetAttrib(root, d.key, to_str(d.parser, getattr(obj, d.name))))

SubtagToXml(root, d, value) ==
    CASE d.parser \in {"TextTag", "HtmlTag"} ->
            AppendChild(root, Element(d.key, <<>>, Some(value), <<>>))
      [] d.parser = "BoolTag" ->
            AppendChild(root, Element(d.key, <<>>,
                                      Some(IF value THEN <<"1">> ELSE <<"0">>), <<>>))
      [] d.parser = "SegmentTag" ->
            [root EXCEPT !.children = @ \o [k \in 1..Len(value) |-> to_xml(value[k])]]
      [] d.parser = "QualifierTag" -> QualifierTag_to_xml(root, d.key, value)

SubtagsToXml(obj, k, root) ==
    LET defs == xml_subtag_defs(obj.cls)
        d == defs[k]
    IN  IF k > Len(defs) THEN root
        ELSE IF ~hasattr(obj, d.name) \/ has_default_value(obj, d.name)
        THEN SubtagsToXml(obj, k + 1, root)
        ELSE SubtagsToXml(obj, k + 1, SubtagToXml(root, d, getattr(obj, d.name)))

to_xml(obj) ==
    SubtagsToXml(obj, 1,
        AttribsToXml(obj, 1, Element(xml_tag(obj.cls), <<>>, Undef, <<>>)))

\* Xml.from_xml(root): an object of the class, then every attribute of the
\* root and every child of the root is looked up in the declarations by
\* its key (a KeyError when it is not there), parsed and set.  The message
\* of the ValueError for a root of another tag needs self, which has no
\* value yet.
NoObj == [cls |-> "", fields |-> <<>>]

RECURSIVE from_xml(_, _)
RECURSIVE AttribsFromXml(_, _, _)
RECURSIVE SubtagsFromXml(_, _, _)

AttribsFromXml(obj, root, k) ==
    LET a == root.attrib[k]
        d == ByKey(xml_attrib_defs(obj.cls), a.key)
        v == from_str(d.parser, a.value)
    IN  IF k > Len(root.attrib) THEN [result |-> "ok", obj |-> obj]
        ELSE IF a.key \notin attrib_keys(obj.cls) THEN [result |-> "KeyError", obj |-> NoObj]
        ELSE IF v.result # "ok" THEN [result |-> v.result, obj |-> NoObj]
        ELSE AttribsFromXml(setattr(obj, d.name, v.value), root, k + 1)

\* parser.from_xml(element)
SubtagFromXml(parser, element) ==
    CASE parser \in {"TextTag", "HtmlTag"} ->
            [result |-> "ok",
             value |-> IF element.text = Undef THEN None
                       ELSE CHOOSE t \in element.text : TRUE]
      [] parser = "BoolTag" ->
            IF element.text \in {Some(<<"0">>), Some(<<"1">>)}
            THEN [result |-> "ok", value |-> element.text = Some(<<"1">>)]
            ELSE [result |-> "KeyError", value |-> FALSE]
      [] parser = "SegmentTag" ->
            LET r == from_xml("FeatureSegment", element)
            IN  [result |-> r.result, value |-> r.obj]
      [] parser = "QualifierTag" -> QualifierTag_from_xml(element)

\* getattr(parser, 'setattr', setattr)(self, name, value): AppendListTag
\* starts or extends a list, UpdateDictTag starts or updates a dict.
SubtagSetattr(parser, obj, name, value) ==
    CASE parser = "SegmentTag" ->
            IF ~hasattr(obj, name) THEN setattr(obj, name, <<value>>)
            ELSE setattr(obj, name, Append(getattr(obj, name), value))
      [] parser = "QualifierTag" ->
            IF ~hasattr(obj, name) THEN setattr(obj, name, value)
            ELSE setattr(obj, name, update(getattr(obj, name), value))
      [] OTHER -> setattr(obj, name, value)

SubtagsFromXml(obj, root, k) ==
    LET element == root.children[k]
        d == ByKey(xml_subtag_defs(obj.cls), element.tag)
        v == SubtagFromXml(d.parser, element)
    IN  IF k > Len(root.children) THEN [result |-> "ok", obj |-> obj]
        ELSE IF element.tag \notin subtag_keys(obj.cls)
        THEN [result |-> "KeyError", obj |-> NoObj]
        ELSE IF v.result # "ok" THEN [result |-> v.result, obj |-> NoObj]
        ELSE SubtagsFromXml(SubtagSetattr(d.parser, obj, d.name, v.value), root, k + 1)

from_xml(cls, root) ==
    LET attribs == AttribsFromXml(Xml_init(cls), root, 1)
    IN  IF root.tag # xml_tag(cls) THEN [result |-> "UnboundLocalError", obj |-> NoObj]
        ELSE IF attribs.result # "ok" THEN attribs
        ELSE SubtagsFromXml(attribs.obj, root, 1)

\* FeatureSegment.get_begin and get_end
get_begin(segment) == getattr(segment, "range")[1]
get_end(segment) == getattr(segment, "range")[2]

(***************************************************************************)
(* Structured records at work: an object is made, fields are set and       *)
(* deleted, the object is written as an element and the element read       *)
(* again; and elements from a file are read and written again.             *)
(***************************************************************************)
MaxItems == 2

\* The ranges and range texts of segments.
Ranges == {<<1, 2>>, <<10, 19>>}
RangeTexts == {<<"1", "-", "1", "9">>, <<"2", "-", "3">>, <<"1", "0", "-", "1", "2">>,
               <<"5">>, <<"2", "-", "x">>}

\* A segment with a range, as add_feature leaves it.
SegmentWith(range) == setattr(Xml_init("FeatureSegment"), "range", range)

\* The scalars of a qualifier: an int, the empty text and a text of one
\* digit; the values: a scalar, or a list of up to MaxItems scalars; the
\* dicts: up to two qualifiers.
Scalars == {IntV(1), StrV(<<>>), StrV(<<"5">>)}
QualifierValues == Scalars \cup {ListV(l) : l \in UNION {[1..n -> Scalars] : n \in 0..MaxItems}}
QualifierDicts ==
    {<<>>}
    \cup {<<Item(<<"a">>, v)>> : v \in QualifierValues}
    \cup {<<Item(<<"a">>, v), Item(<<"b">>, w)>> : v \in QualifierValues, w \in Scalars}

\* The values given to a field by assignment.
FieldValues(cls, name) ==
    CASE cls = "FeatureSegment" /\ name = "name" -> {<<"X">>}
      [] cls = "FeatureSegment" /\ name = "range" -> Ranges
      [] cls = "FeatureSegment" /\ name = "is_translated" -> BOOLEAN
      [] cls = "Feature" /\ name = "id" -> {0}
      [] cls = "Feature" /\ name = "name" -> {<<"X">>}
      [] cls = "Feature" /\ name = "segments" -> {<<>>, <<SegmentWith(<<1, 2>>)>>}
      [] cls = "Feature" /\ name = "qualifiers" -> {<<>>, <<Item(<<"a">>, IntV(1))>>}
      [] cls = "NotesBlock" /\ name = "type" -> {<<"N">>}
      [] cls = "NotesBlock" /\ name = "is_confirmed_experimentally" -> BOOLEAN
      [] OTHER -> {}

\* The elements read: segments with a range text, with an attribute the
\* class does not declare, and with a child it does not declare; a feature
\* with a segment child; notes with a child.
SegmentElement(text) == Element("Segment", <<[key |-> "range", value |-> text]>>, Undef, <<>>)
UnknownAttrib == [key |-> "unknown", value |-> <<"!">>]
UnknownChild == Element("Unknown", <<>>, Some(<<"!">>), <<>>)
XmlInputs ==
    {SegmentElement(t) : t \in RangeTexts}
    \cup {[SegmentElement(t) EXCEPT !.attrib = @ \o <<UnknownAttrib>>] : t \in RangeTexts}
    \cup {Element(xml_tag(cls), <<>>, Undef, <<>>) : cls \in XmlClasses}
    \cup {Element(xml_tag(cls), <<UnknownAttrib>>, Undef, <<>>) : cls \in XmlClasses}
    \cup {Element(xml_tag(cls), <<>>, Undef, <<UnknownChild>>) : cls \in XmlClasses}
    \cup {Element("Feature", <<[key |-> "name", value |-> <<"X">>]>>, Undef,
                  <<SegmentElement(t)>>) : t \in RangeTexts}
    \cup {Element("Notes", <<>>, Undef, <<Element("Type", <<>>, Some(<<"N">>), <<>>)>>)}

ClassOf(tag) == CHOOSE cls \in XmlClasses : xml_tag(cls) = tag

\* The record of a call on a structured record.
NoElement == Element("", <<>>, Undef, <<>>)
XCall(op, prev, name, obj, element, decoded, written, result) ==
    [op |-> op, prev |-> prev, name |-> name, obj |-> obj, element |-> element,
     decoded |-> decoded, written |-> written, result |-> result]

ObjectOps == {"init", "setattr", "delattr"}

\* cls()
XmlInit ==
    /\ call = Idle
    /\ \E cls \in XmlClasses :
          call' = XCall("init", "idle", "", Xml_init(cls), NoElement, NoObj,
                        NoElement, "ok")
    /\ UNCHANGED <<blocks, input_path, files>>

\* Feature(qualifiers=...)
XmlInitQualifiers ==
    /\ call = Idle
    /\ \E q \in QualifierDicts :
          call' = XCall("init_kwargs", "idle", "",
                        setattr(Xml_init("Feature"), "qualifiers", q),
                        NoElement, NoObj, NoElement, "ok")
    /\ UNCHANGED <<blocks, input_path, files>>

\* obj.name = value
XmlSetAttr ==
    /\ call.op \in ObjectOps
    /\ \E name \in defined_names(call.obj.cls) :
          \E value \in FieldValues(call.obj.cls, name) :
             call' = XCall("setattr", call.op, name, setattr(call.obj, name, value),
                           NoElement, NoObj, NoElement, "ok")
    /\ UNCHANGED <<blocks, input_path, files>>

\* del obj.name
XmlDelAttr ==
    /\ call.op \in ObjectOps
    /\ \E name \in defined_names(call.obj.cls) :
          /\ FieldValues(call.obj.cls, name) # {}
          /\ LET r == delattr(call.obj, name)
             IN  call' = XCall("delattr", call.op, name, r.obj, NoElement, NoObj,
                               NoElement, r.result)
    /\ UNCHANGED <<blocks, input_path, files>>

\* obj.to_xml()
XmlToXml ==
    /\ call.op \in ObjectOps \cup {"init_kwargs"}
    /\ call' = XCall("to_xml", IF call.result = "ok" THEN call.op ELSE "raised",
                     call.name, call.obj, to_xml(call.obj), NoObj, NoElement, "ok")
    /\ UNCHANGED <<blocks, input_path, files>>

\* cls.from_xml(obj.to_xml())
XmlReadBack ==
    /\ call.op = "to_xml"
    /\ LET r == from_xml(call.obj.cls, call.element)
       IN  call' = XCall("read_back", call.prev, call.name, call.obj, call.element,
                         r.obj, NoElement, r.result)
    /\ UNCHANGED <<blocks, input_path, files>>

\* cls.from_xml(root)
XmlFromXml ==
    /\ call = Idle
    /\ \E root \in XmlInputs :
          LET r == from_xml(ClassOf(root.tag), root)
          IN  call' = XCall("from_xml", "idle", "", NoObj, root, r.obj, NoElement,
                            r.result)
    /\ UNCHANGED <<blocks, input_path, files>>

\* cls.from_xml(root).to_xml()
XmlWriteBack ==
    /\ call.op = "from_xml"
    /\ call.result = "ok"
    /\ call' = XCall("write_back", "from_xml", "", NoObj, call.element, call.decoded,
                     to_xml(call.decoded), "ok")
    /\ UNCHANGED <<blocks, input_path, files>>

NextXml ==
    \/ Return
    \/ XmlInit
    \/ XmlInitQualifiers
    \/ XmlSetAttr
    \/ XmlDelAttr
    \/ XmlToXml
    \/ XmlReadBack
    \/ XmlFromXml
    \/ XmlWriteBack

SpecXml == Init /\ [][NextXml]_vars

(***************************************************************************)
(* Editing and then writing: a Fresh document, then the trace methods,     *)
(* set_sequence, clear_history and write in any order.                     *)
(***************************************************************************)
\* The documents edited and written hold at most this many traces.
MaxEdited == 2

\* clear_history: remove_blocks of the two history classes.
clear_history(bs) ==
    [result |-> "ok",
     blocks |-> remove_blocks(remove_blocks(bs, "HistoryBlock"), "HistoryNodeBlock")]

ClearHistory ==
    ReturnsF(clear_history(blocks),
             FCall("clear_history", NoFeature, None, "", blocks, "ok"))

\* A trace method whose document stays within MaxEdited traces.
Edits(Method) == Method /\ count_traces(blocks') <= MaxEdited

NextEdit ==
    \/ Return
    \/ Edits(InsertTrace)
    \/ Edits(AppendTrace)
    \/ Edits(PrependTrace)
    \/ Edits(AddTrace)
    \/ Edits(RemoveTrace)
    \/ Edits(RenameTrace)
    \/ Edits(ReplaceTrace)
    \/ Edits(SortTraces)
    \/ Edits(ClearTraces)
    \/ SetSequence
    \/ ClearHistory
    \/ Write

SpecEdit == Init /\ [][NextEdit]_vars

(***************************************************************************)
(* What the claims speak of, read off a block list.                        *)
(***************************************************************************)
TraceOps == {"insert_trace", "append_trace", "prepend_trace", "add_trace",
             "remove_trace", "replace_trace", "sort_traces", "clear_traces"}

\* The metadata entries of a document, [] without an AlignmentsBlock.
Metadata(bs) ==
    LET ks == BlockIdxs(bs, "AlignmentsBlock")
    IN  IF ks = {} THEN <<>> ELSE bs[CHOOSE k \in ks : TRUE].metadata

MetadataIds(bs) == {Metadata(bs)[k].id : k \in 1..Len(Metadata(bs))}

TraceNames(bs) == [k \in 1..Len(Metadata(bs)) |-> Metadata(bs)[k].name]

NumSeqBlocks(bs) == Cardinality(BlockIdxs(bs, "AlignedSequenceBlock"))

\* The trace data of the AlignedSequenceBlocks with the given id.
DataOf(bs, id) ==
    {bs[k].traces : k \in {j \in BlockIdxs(bs, "AlignedSequenceBlock") : bs[j].id = id}}

\* Each trace as its name and the data of the block(s) its id links it to.
Pairs(bs) ==
    [k \in 1..Len(Metadata(bs)) |->
        [name |-> Metadata(bs)[k].name, data |-> DataOf(bs, Metadata(bs)[k].id)]]

\* The stems of the paths in use, written out.
StemOf(p) == IF p = PathA THEN NameA ELSE NameB

\* The name a new trace gets from the arguments of a call.
NewName(c) == IF c.name # None THEN c.name ELSE StemOf(c.path.s)

Named(seq, name) == SelectSeq(seq, LAMBDA x : x.name = name)
NotNamed(seq, name) == SelectSeq(seq, LAMBDA x : x.name # name)

\* The position of the first element of seq with the given name.
FirstPos(seq, name) ==
    CHOOSE k \in 1..Len(seq) :
        /\ seq[k].name = name
        /\ \A j \in 1..(k - 1) : seq[j].name # name

(***************************************************************************)
(* Claims.                                                                 *)
(***************************************************************************)
\* C1: from a document with no traces, after every insert_trace,
\* append_trace, prepend_trace, add_trace, remove_trace, replace_trace,
\* sort_traces or clear_traces call that returns normally, the set of ids of
\* the metadata entries equals the set of ids of the AlignedSequenceBlocks.
C1_IdsMatch ==
    (call.op \in TraceOps /\ call.result = "ok")
        => MetadataIds(blocks) = {blocks[k].id : k \in BlockIdxs(blocks, "AlignedSequenceBlock")}

\* A remove_trace that left two traces behind, renumbered.
C1_Witness ==
    /\ call.op = "remove_trace"
    /\ call.result = "ok"
    /\ Len(Metadata(blocks)) = 2
    /\ NumSeqBlocks(blocks) = 2
    /\ MetadataIds(call.pre) # MetadataIds(blocks)

\* C2: after every insert_trace, remove_trace, replace_trace or sort_traces
\* call that returns normally, each metadata entry's sort_order is its
\* 0-based position in the metadata list.
C2_SortOrder ==
    (call.op \in {"insert_trace", "remove_trace", "replace_trace", "sort_traces"}
     /\ call.result = "ok")
        => \A k \in 1..Len(Metadata(blocks)) : Metadata(blocks)[k].sort_order = {k - 1}

\* A sort_traces that changed the order of three traces.
C2_Witness ==
    /\ call.op = "sort_traces"
    /\ call.result = "ok"
    /\ Len(Metadata(blocks)) = 3
    /\ TraceNames(blocks) # TraceNames(call.pre)

\* C3: remove_trace(name) on a document whose metadata ids and block ids
\* match and that has a trace of that name removes every metadata entry of
\* that name together with the block of the same id; the remaining traces
\* keep their order, get the ids 0..n-1 in list order, and each is still
\* paired with the block it was paired with before.
C3_RemoveTrace ==
    (/\ call.op = "remove_trace"
     /\ MetadataIds(call.pre) = SeqBlockIds(call.pre)
     /\ Named(Metadata(call.pre), NameOf(call.arg)) # <<>>)
        => /\ call.result = "ok"
           /\ Pairs(blocks) = NotNamed(Pairs(call.pre), NameOf(call.arg))
           /\ \A k \in 1..Len(Metadata(blocks)) :
                  /\ Metadata(blocks)[k].id = k - 1
                  /\ Cardinality(DataOf(blocks, k - 1)) = 1
           /\ NumSeqBlocks(blocks) = Len(Metadata(blocks))

\* A remove_trace that leaves two traces whose ids have to change places
\* with respect to the order of their blocks.
C3_Witness ==
    /\ call.op = "remove_trace"
    /\ call.result = "ok"
    /\ Len(Metadata(blocks)) = 2
    /\ Pairs(blocks)[1].data # Pairs(blocks)[2].data
    /\ \E j, k \in BlockIdxs(call.pre, "AlignedSequenceBlock") :
           /\ j < k
           /\ call.pre[j].traces = CHOOSE d \in Pairs(blocks)[2].data : TRUE
           /\ call.pre[k].traces = CHOOSE d \in Pairs(blocks)[1].data : TRUE

\* C4: remove_trace(name) on any document in which no trace has that name,
\* with or without an AlignmentsBlock, raises ValueError and leaves the
\* block list and every metadata entry unchanged.
C4_RemoveMissing ==
    (call.op = "remove_trace" /\ Named(Metadata(call.pre), NameOf(call.arg)) = <<>>)
        => (call.result = "ValueError" /\ blocks = call.pre)

\* The part of C4 that holds: with an AlignmentsBlock in the document.
C4_WithAlignmentsBlock ==
    (/\ call.op = "remove_trace"
     /\ Named(Metadata(call.pre), NameOf(call.arg)) = <<>>
     /\ BlockIdxs(call.pre, "AlignmentsBlock") # {})
        => (call.result = "ValueError" /\ blocks = call.pre)

\* The 0-based index an insertion call asks for.
AskedIndex(c) ==
    CASE c.op = "insert_trace" -> c.i
      [] c.op = "append_trace" -> Len(Metadata(c.pre))
      [] c.op = "prepend_trace" -> 0

\* C5: insert_trace(i, path, name) on a document with n traces and
\* 0 <= i <= n puts the new name (name, or the stem of the path) at index i
\* of trace_names, adds exactly one trace and one AlignedSequenceBlock, and
\* leaves the other traces' names and order as they were; append_trace is
\* the case i = n and prepend_trace the case i = 0.  (The transcoder works.)
C5_InsertTrace ==
    (/\ call.op \in {"insert_trace", "append_trace", "prepend_trace"}
     /\ call.tc = "ok"
     /\ AskedIndex(call) <= Len(Metadata(call.pre)))
        => LET old == TraceNames(call.pre)
               i == AskedIndex(call)
           IN  /\ call.result = "ok"
               /\ TraceNames(blocks) =
                      SubSeq(old, 1, i) \o <<NewName(call)>> \o SubSeq(old, i + 1, Len(old))
               /\ Len(Metadata(blocks)) = Len(old) + 1
               /\ NumSeqBlocks(blocks) = NumSeqBlocks(call.pre) + 1

\* An insertion in the middle of two traces, named by the stem of the path.
C5_Witness ==
    /\ call.op = "insert_trace"
    /\ call.result = "ok"
    /\ call.i = 1
    /\ call.name = None
    /\ Len(Metadata(call.pre)) = 2
    /\ TraceNames(blocks)[2] = StemOf(call.path.s)

\* C6: when the transcoder fails during insert_trace (executable missing or
\* non-zero exit) the call fails and the document is as before the call: no
\* metadata entry, no AlignedSequenceBlock, no AlignmentsBlock is added.
C6_TranscoderFails ==
    (call.op \in {"insert_trace", "append_trace", "prepend_trace"} /\ call.tc # "ok")
        => (call.result = call.tc /\ blocks = call.pre)

\* The transcoder failed on a document that has no AlignmentsBlock yet.
C6_Witness ==
    /\ call.op = "insert_trace"
    /\ call.tc = "CalledProcessError"
    /\ call.result = "CalledProcessError"
    /\ BlockIdxs(call.pre, "AlignmentsBlock") = {}

\* C7: for a Path argument, add_trace(path) appends a trace when none is
\* named path.stem and otherwise adds no second trace of that name: after
\* the call exactly one trace is named path.stem, and a second
\* add_trace(path) leaves trace_names and count_traces() as they are.
\* (The transcoder works.)
C7_AddTrace ==
    (call.op = "add_trace" /\ call.path.isPath /\ call.name = None /\ call.tc = "ok")
        => LET name == StemOf(call.path.s)
               again == add_trace(blocks, call.path, None, "ok")
           IN  /\ call.result = "ok"
               /\ Len(Named(Metadata(blocks), name)) = 1
               /\ Named(Metadata(call.pre), name) = <<>>
                      => TraceNames(blocks) = Append(TraceNames(call.pre), name)
               /\ again.result = "ok"
               /\ TraceNames(again.blocks) = TraceNames(blocks)
               /\ Len(Metadata(again.blocks)) = Len(Metadata(blocks))

\* add_trace(path) on a document that had two traces of that name and one
\* other.
C7_Witness ==
    /\ call.op = "add_trace"
    /\ call.path.isPath
    /\ call.name = None
    /\ call.result = "ok"
    /\ Len(Named(Metadata(call.pre), StemOf(call.path.s))) = 2
    /\ Len(Metadata(call.pre)) = 3

\* C8: replace_trace(old_name, path, new_name) on a document with a trace
\* named old_name leaves the new trace where the first old_name trace was,
\* removes every other trace named old_name and keeps the other traces in
\* their order; with no trace named old_name it raises ValueError.  (The
\* transcoder works.)
C8_ReplaceTrace ==
    (call.op = "replace_trace" /\ call.tc = "ok")
        => LET old == Pairs(call.pre)
               old_name == NameOf(call.arg)
           IN  IF Named(old, old_name) = <<>>
               THEN call.result = "ValueError"
               ELSE LET k == FirstPos(old, old_name)
                        new == [name |-> NewName(call),
                                data |-> {<<ztr_from_data(call.path.s)>>}]
                    IN  /\ call.result = "ok"
                        /\ Pairs(blocks) =
                               SubSeq(old, 1, k - 1) \o <<new>>
                                   \o NotNamed(SubSeq(old, k + 1, Len(old)), old_name)

\* A replacement of the second and third of three traces by one trace.
C8_Witness ==
    /\ call.op = "replace_trace"
    /\ call.result = "ok"
    /\ Len(Metadata(call.pre)) = 3
    /\ Len(Metadata(blocks)) = 2
    /\ TraceNames(call.pre)[1] # NameOf(call.arg)
    /\ TraceNames(blocks)[1] = TraceNames(call.pre)[1]

\* C9: pick_trace(name) on a document that has a trace of that name returns
\* normally and leaves exactly one trace visible, the one named name, and
\* every other trace hidden, without changing an id, a sort_order or the
\* list order.
C9_PickTrace ==
    (call.op = "pick_trace" /\ Named(Metadata(call.pre), NameOf(call.arg)) # <<>>)
        => LET md == Metadata(blocks)
               visible == {k \in 1..Len(md) : md[k].is_visible = {TRUE}}
           IN  /\ call.result = "ok"
               /\ Cardinality(visible) = 1
               /\ \A k \in 1..Len(md) :
                      md[k].is_visible = {md[k].name = NameOf(call.arg)}
               /\ [k \in 1..Len(md) |-> [md[k] EXCEPT !.is_visible = {}]]
                      = [k \in 1..Len(Metadata(call.pre)) |->
                            [Metadata(call.pre)[k] EXCEPT !.is_visible = {}]]

\* C10: rename_trace(old_name, new_name) on a document with traces named
\* old_name renames each of them and leaves ids, sort_order values, list
\* order and blocks unchanged; with no trace named old_name it raises
\* ValueError.
C10_RenameTrace ==
    call.op = "rename_trace"
        => LET old == Metadata(call.pre)
               old_name == NameOf(call.arg)
           IN  IF Named(old, old_name) = <<>>
               THEN call.result = "ValueError"
               ELSE /\ call.result = "ok"
                    /\ Metadata(blocks) =
                           [k \in 1..Len(old) |->
                               IF old[k].name = old_name
                               THEN [old[k] EXCEPT !.name = call.name]
                               ELSE old[k]]
                    /\ find_blocks(blocks, "AlignedSequenceBlock")
                           = find_blocks(call.pre, "AlignedSequenceBlock")

(***************************************************************************)
(* Features.                                                               *)
(***************************************************************************)
\* The 0-based offsets at which anchor a occurs in sequence s, ignoring
\* case.
Offsets(a, s) ==
    {i \in 0..(Len(s) - Len(a)) :
        \A k \in 1..Len(a) : UpperChar(s[i + k]) = UpperChar(a[k])}

\* The blocks that are not the FeaturesBlock, in order.
OtherBlocks(bs) == SelectSeq(bs, LAMBDA b : b.cls # "FeaturesBlock")

\* C11: add_feature(feature) without an anchor on a document with n
\* features returns normally, gives the feature the id n and appends it as
\* the last feature: there are n + 1 features, the first n are the features
\* from before, unchanged.  The document has one FeaturesBlock afterwards:
\* the one it had, or a new one at the end of the block list; the other
\* blocks are untouched.
C11_AddFeature ==
    (call.op = "add_feature" /\ call.seq = None) =>
        LET pre  == get_features(call.pre)
            post == get_features(blocks)
            n    == Len(pre)
        IN  /\ call.result = "ok"
            /\ count_features(blocks) = n + 1
            /\ SubSeq(post, 1, n) = pre
            /\ post[n + 1].id = n
            /\ post[n + 1].name = call.feature.name
            /\ post[n + 1].segments = call.feature.segments
            /\ Cardinality(BlockIdxs(blocks, "FeaturesBlock")) = 1
            /\ OtherBlocks(blocks) = OtherBlocks(call.pre)
            /\ IF BlockIdxs(call.pre, "FeaturesBlock") = {}
               THEN /\ Len(blocks) = Len(call.pre) + 1
                    /\ blocks[Len(blocks)].cls = "FeaturesBlock"
               ELSE BlockIdxs(blocks, "FeaturesBlock") = BlockIdxs(call.pre, "FeaturesBlock")

\* A feature was added without an anchor to a document that had two.
C11_Witness ==
    /\ call.op = "add_feature"
    /\ call.seq = None
    /\ call.result = "ok"
    /\ count_features(call.pre) = 2
    /\ count_features(blocks) = 3
    /\ get_features(blocks)[3].id = 2

\* C12: in every document reached from a Fresh one by add_feature (with or
\* without an anchor) and remove_feature calls, the k-th feature of the
\* list (counting from 0) has the id k, so the ids are pairwise distinct.
C12_FeatureIds ==
    LET features == get_features(blocks)
    IN  \A k \in 1..Len(features) : features[k].id = k - 1

\* C13: add_feature(feature, seq=A) with a non-empty anchor on a document
\* that has a sequence.  When A occurs nowhere in the sequence it raises
\* SequenceNotFound; otherwise, when the feature has more than one segment,
\* it raises ValueError; in both cases no feature is added.  Otherwise it
\* returns normally and appends one copy of the feature per offset at which
\* A occurs, ignoring case and counting overlapping occurrences, in
\* increasing order of the offset i: the copy has the feature's name and
\* exactly one segment, whose range is (i + 1, i + len(A)).
C13_AnchoredAdd ==
    (/\ call.op = "add_feature"
     /\ call.seq # None
     /\ get_sequence(call.pre).result = "ok") =>
        LET pre  == get_features(call.pre)
            post == get_features(blocks)
            n    == Len(pre)
            A    == call.seq
            offs == Offsets(A, get_sequence(call.pre).value)
        IN  IF offs = {}
            THEN call.result = "SequenceNotFound" /\ post = pre
            ELSE IF Len(call.feature.segments) > 1
            THEN call.result = "ValueError" /\ post = pre
            ELSE /\ call.result = "ok"
                 /\ Len(post) = n + Cardinality(offs)
                 /\ SubSeq(post, 1, n) = pre
                 /\ \A k \in 1..Cardinality(offs) :
                       LET i == CHOOSE i \in offs :
                                    Cardinality({j \in offs : j < i}) = k - 1
                       IN  /\ post[n + k].name = call.feature.name
                           /\ Len(post[n + k].segments) = 1
                           /\ post[n + k].segments[1].range =
                                  Some(<<i + 1, i + Len(A)>>)

\* The anchor AA was found at the overlapping offsets 0 and 1 of AaA, and
\* two copies with the ranges (1, 2) and (2, 3) were added after a feature
\* that was there before.
C13_Witness ==
    /\ call.op = "add_feature"
    /\ call.seq = <<"A", "A">>
    /\ call.result = "ok"
    /\ get_sequence(call.pre).value = <<"A", "a", "A">>
    /\ count_features(call.pre) = 1
    /\ count_features(blocks) = 3
    /\ get_features(blocks)[2].segments[1].range = Some(<<1, 2>>)
    /\ get_features(blocks)[3].segments[1].range = Some(<<2, 3>>)

\* C14: remove_feature(name), when a feature has that name, returns
\* normally and leaves the features of other names, in their order, with
\* the ids 0..n-1; the other blocks are untouched.  When no feature has the
\* name, or there is no FeaturesBlock, it raises FeatureNotFound and the
\* block list is as before.
C14_RemoveFeature ==
    (call.op = "remove_feature") =>
        LET pre  == get_features(call.pre)
            post == get_features(blocks)
            kept == SelectSeq(pre, LAMBDA f : f.name # call.name)
        IN  IF \E k \in 1..Len(pre) : pre[k].name = call.name
            THEN /\ call.result = "ok"
                 /\ Len(post) = Len(kept)
                 /\ \A k \in 1..Len(kept) :
                       /\ post[k].id = k - 1
                       /\ post[k].name = kept[k].name
                       /\ post[k].segments = kept[k].segments
                 /\ OtherBlocks(blocks) = OtherBlocks(call.pre)
                 /\ BlockIdxs(blocks, "FeaturesBlock") = BlockIdxs(call.pre, "FeaturesBlock")
            ELSE /\ call.result = "FeatureNotFound"
                 /\ blocks = call.pre

\* Two features of the name were removed from around a third, which moved
\* from id 1 to id 0.
C14_Witness ==
    /\ call.op = "remove_feature"
    /\ call.result = "ok"
    /\ count_features(call.pre) = 3
    /\ get_features(call.pre)[1].name = call.name
    /\ get_features(call.pre)[3].name = call.name
    /\ get_features(call.pre)[2].name # call.name
    /\ get_features(call.pre)[2].id = 1
    /\ count_features(blocks) = 1
    /\ get_features(blocks)[1].id = 0

(***************************************************************************)
(* The block container.                                                    *)
(***************************************************************************)
\* The stream ends inside a record that starts at offset i or later: fewer
\* than 5 bytes are left for a header, or fewer payload bytes than the
\* header declares.
RECURSIVE EndsInsideRecord(_, _)
EndsInsideRecord(bytes, i) ==
    IF i >= Len(bytes) THEN FALSE
    ELSE IF Len(bytes) - i < 5 THEN TRUE
    ELSE LET size == bytes[i + 2] * 16777216 + bytes[i + 3] * 65536
                     + bytes[i + 4] * 256 + bytes[i + 5]
         IN  IF i + 5 + size > Len(bytes) THEN TRUE
             ELSE EndsInsideRecord(bytes, i + 5 + size)

\* C18: blocks_from_bytes raises ParseError on every stream that ends
\* inside a record, and when it returns normally no stream ended inside one.
C18_Truncated ==
    (call.op = "blocks_from_bytes" /\ EndsInsideRecord(call.bytes, 0)) =>
        call.result = "ParseError"

\* The streams whose records all carry a tag without a class in the
\* registry.
UnregisteredRecordSeqs == RecordSeqs(RecordTags \ RegisteredIds)

\* C19: for a well-formed stream of records with unregistered tags,
\* blocks_from_bytes returns one block per record, in order, with the
\* record's tag as block_id and its payload as bytes, and bytes_from_blocks
\* of these blocks returns the stream: record by record the tag, the length
\* of the payload in 4 bytes, and the payload.
C19_RoundTrip ==
    (/\ call.op = "bytes_from_blocks"
     /\ \E recs \in UnregisteredRecordSeqs : Stream(recs) = call.bytes) =>
        LET recs == CHOOSE recs \in UnregisteredRecordSeqs : Stream(recs) = call.bytes
        IN  /\ call.result = "ok"
            /\ Len(call.out) = Len(recs)
            /\ \A k \in 1..Len(recs) :
                  /\ call.out[k].block_id = recs[k].tag
                  /\ call.out[k].bytes = Some(recs[k].payload)
                  /\ LET emitted == bytes_from_block(call.out[k]).bytes
                     IN  /\ SubSeq(emitted, 2, 5) = pack_I(Len(emitted) - 5)
                         /\ SubSeq(emitted, 6, Len(emitted)) = recs[k].payload
            /\ call.encoded = call.bytes

\* Two records with the unregistered tags 2 and 4 and the payloads b'Hi'
\* and b'' were read and written back.
C19_Witness ==
    /\ call.op = "bytes_from_blocks"
    /\ call.result = "ok"
    /\ call.bytes = Record(2, <<72, 105>>) \o Record(4, <<>>)
    /\ Len(call.out) = 2
    /\ call.encoded = call.bytes

(***************************************************************************)
(* The document, its blocks and its files.                                 *)
(***************************************************************************)
\* The bytes write puts into a file for the block list bs.
Written(bs) == bytes_from_blocks([k \in 1..Len(bs) |-> AsBlock(bs[k])]).bytes

\* C15: write() with no path, as the statement after parse(p) of a file
\* that holds a SnapGene document, returns normally and writes the
\* document to p; write() with no path on a document without input_path
\* raises ValueError and writes nothing; write(path) on a document whose
\* first block is the header returns normally and writes the document to
\* path, and to no other file.
C15_Write ==
    (call.op = "write") =>
        /\ (/\ call.path = None
            /\ call.prev.op = "parse"
            /\ call.pre_files[call.prev.path] = GoodFile) =>
               /\ call.result = "ok"
               /\ files[call.prev.path] = Written(blocks)
        /\ (/\ call.path = None
            /\ call.prev.op # "parse"
            /\ call.pre_input_path = None) =>
               /\ call.result = "ValueError"
               /\ files = call.pre_files
        /\ (/\ call.path # None
            /\ blocks # <<>>
            /\ blocks[1].cls = "HeaderBlock") =>
               /\ call.result = "ok"
               /\ files = [call.pre_files EXCEPT ![call.path] = Written(blocks)]

\* What write does hold to: with no path and no input_path it raises
\* ValueError and writes nothing, and with a path and the header first it
\* writes the document to that path and to no other file.
C15_FreshAndExplicit ==
    (call.op = "write") =>
        /\ (call.path = None /\ call.pre_input_path = None) =>
               /\ call.result = "ValueError"
               /\ files = call.pre_files
        /\ (/\ call.path # None
            /\ blocks # <<>>
            /\ blocks[1].cls = "HeaderBlock") =>
               /\ call.result = "ok"
               /\ files = [call.pre_files EXCEPT ![call.path] = Written(blocks)]

\* C16 as stated: a write() with no path that is the statement after a
\* successful write(path) returns normally and writes the document to the
\* same path.
C16_BoundAfterWrite ==
    (/\ call.op = "write"
     /\ call.path = None
     /\ call.prev.op = "write"
     /\ call.prev.path # None
     /\ call.prev.result = "ok") =>
        /\ call.result = "ok"
        /\ files[call.prev.path] = Written(blocks)

\* C16, amended: write(path) leaves the input_path as it was, so a
\* document without one is still without one after a successful
\* write(path), and a write() with no path as the next statement raises
\* ValueError and writes nothing.
C16_StaysFresh ==
    (call.op = "write") =>
        /\ input_path = call.pre_input_path
        /\ (/\ call.path = None
            /\ call.pre_input_path = None
            /\ call.prev.op = "write"
            /\ call.prev.path # None
            /\ call.prev.result = "ok") =>
               /\ call.result = "ValueError"
               /\ files = call.pre_files

\* write() was called right after a write(PathB) that had written the
\* document, and raised ValueError.
C16_Witness ==
    /\ call.op = "write"
    /\ call.path = None
    /\ call.prev.op = "write"
    /\ call.prev.path = PathB
    /\ call.prev.result = "ok"
    /\ call.pre_files[PathB] = Written(blocks)
    /\ call.result = "ValueError"
    /\ input_path = None

\* The indexes of the blocks of class cls.
IdxsOf(bs, cls) == {k \in 1..Len(bs) : bs[k].cls = cls}

\* C17: find_block(cls) returns the block when the document has exactly
\* one of the class, raises BlockNotFound when it has none and
\* AssertionError when it has several, and leaves the block list as it
\* was.  find_or_make_block(cls) appends a new block of the class and
\* returns it when the document has none, and otherwise does what
\* find_block does.
C17_FindBlock ==
    LET ks == IdxsOf(call.pre, call.cls)
        found == /\ Cardinality(ks) = 1 => (call.result = "ok" /\ call.found \in ks)
                 /\ Cardinality(ks) > 1 => call.result = "AssertionError"
    IN  /\ (call.op = "find_block") =>
               /\ blocks = call.pre
               /\ found
               /\ ks = {} => call.result = "BlockNotFound"
        /\ (call.op = "find_or_make_block") =>
               IF ks = {}
               THEN /\ call.result = "ok"
                    /\ blocks = Append(call.pre, NewBlock(call.cls))
                    /\ call.found = Len(blocks)
               ELSE /\ blocks = call.pre
                    /\ found

\* find_or_make_block met two blocks of the class: AssertionError, and no
\* third block.
C17_Witness ==
    /\ call.op = "find_or_make_block"
    /\ Cardinality(IdxsOf(call.pre, call.cls)) = 2
    /\ call.result = "AssertionError"
    /\ blocks = call.pre

\* The payload of the first record of a file.
FirstPayload(bytes) == Slice(bytes, 5, 5 + unpack_BI(Slice(bytes, 0, 5)).values[2])

\* C20: parse(path) of a file whose first record has a payload that does
\* not begin with b'SnapGene' raises ParseError, whatever the tag of the
\* record, and leaves the block list and the input_path as they were.
C20_ParseRejects ==
    (/\ call.op = "parse"
     /\ call.pre_files[call.path] # NoFile
     /\ Slice(FirstPayload(call.pre_files[call.path]), 0, 8) # magic_cookie) =>
        /\ call.result = "ParseError"
        /\ blocks = call.pre
        /\ input_path = call.pre_input_path

\* What the decoder below parse does: the magic cookie is looked for by
\* HeaderBlock.from_bytes only, so a well-formed stream whose records have
\* tags without a registered class is read without complaint, though no
\* payload begins with b'SnapGene'.
C20_HeaderTagOnly ==
    (/\ call.op = "blocks_from_bytes"
     /\ \E recs \in UnregisteredRecordSeqs : Stream(recs) = call.bytes) =>
        call.result = "ok"

(***************************************************************************)
(* The sequence block.                                                     *)
(***************************************************************************)
\* The five flags that the first byte of a sequence payload stands for:
\* bit 0x01 circular, 0x02 double-stranded, 0x04 dam, 0x08 dcm, 0x10 EcoKI.
FlagsOf(props) ==
    [topology |-> IF props % 2 >= 1 THEN "circular" ELSE "linear",
     strandedness |-> IF props % 4 >= 2 THEN "double" ELSE "single",
     is_dam_methylated |-> props % 8 >= 4,
     is_dcm_methylated |-> props % 16 >= 8,
     is_ecoki_methylated |-> props % 32 >= 16]

Flags(attrs) ==
    [topology |-> attrs.topology, strandedness |-> attrs.strandedness,
     is_dam_methylated |-> attrs.is_dam_methylated,
     is_dcm_methylated |-> attrs.is_dcm_methylated,
     is_ecoki_methylated |-> attrs.is_ecoki_methylated]

\* C21: to_bytes writes the five flags into bits 0x01..0x10 of the first
\* byte and sets no higher bit, followed by the sequence; from_bytes reads
\* the five flags from these bits whatever the bits above 0x10 are; and
\* DnaBlock.from_bytes(block.to_bytes()) has the flags and the sequence of
\* block, for every combination of the flags and every ASCII sequence.
C21_DnaFlags ==
    /\ call.op = "to_bytes" =>
          /\ call.result = "ok"
          /\ call.bytes[1] < 32
          /\ FlagsOf(call.bytes[1]) = Flags(call.attrs)
          /\ Tail(call.bytes) = call.attrs.sequence
    /\ (call.op = "from_bytes" /\ call.bytes # <<>>) =>
          /\ call.result = "ok"
          /\ Flags(call.decoded) = FlagsOf(call.bytes[1] % 32)
          /\ call.decoded.sequence = Tail(call.bytes)
    /\ call.op = "read_back" =>
          /\ call.result = "ok"
          /\ call.decoded = call.attrs

\* A circular, single-stranded, dcm-methylated block with the sequence 'Ac'
\* was written as b'\x09Ac' and read back.
C21_Witness ==
    /\ call.op = "read_back"
    /\ call.bytes = <<9, 65, 99>>
    /\ call.decoded.topology = "circular"
    /\ call.decoded.strandedness = "single"
    /\ call.decoded.is_dcm_methylated
    /\ ~call.decoded.is_dam_methylated

(***************************************************************************)
(* The structured records.                                                 *)
(***************************************************************************)
\* The field name of the object's class shows in the element: as the
\* attribute or as a child element of its declaration.
IsAttribName(cls, name) ==
    \E k \in 1..Len(xml_attrib_defs(cls)) : xml_attrib_defs(cls)[k].name = name
Appears(obj, element, name) ==
    IF IsAttribName(obj.cls, name)
    THEN DefOf(obj.cls, name).key \in AttribKeys(element)
    ELSE DefOf(obj.cls, name).key \in ChildTags(element)

\* The object with the field as it is when it was never set.
NeverSet(obj, name) == [obj EXCEPT !.fields[name] = DefOf(obj.cls, name).default]

Known(root) ==
    [root EXCEPT
        !.attrib = SelectSeq(@, LAMBDA a : a.key \in attrib_keys(ClassOf(root.tag))),
        !.children = SelectSeq(@, LAMBDA e : e.tag \in subtag_keys(ClassOf(root.tag)))]
UnknownAttribs(root) ==
    {root.attrib[k] : k \in {j \in 1..Len(root.attrib) :
                                root.attrib[j].key \notin attrib_keys(ClassOf(root.tag))}}
UnknownChildren(root) ==
    {root.children[k] : k \in {j \in 1..Len(root.children) :
                                  root.children[j].tag \notin subtag_keys(ClassOf(root.tag))}}

\* C23: from_xml of an element that carries an attribute or a child its
\* class does not declare, and is well-formed otherwise, returns the object
\* that the element without them gives, and to_xml of that object has every
\* such attribute, with its value, and every such child, with its content.
C23_UnknownKept ==
    /\ (/\ call.op = "from_xml"
        /\ call.element # Known(call.element)
        /\ from_xml(ClassOf(call.element.tag), Known(call.element)).result = "ok") =>
          /\ call.result = "ok"
          /\ call.decoded = from_xml(ClassOf(call.element.tag), Known(call.element)).obj
    /\ call.op = "write_back" =>
          /\ \A a \in UnknownAttribs(call.element) :
                \E k \in 1..Len(call.written.attrib) : call.written.attrib[k] = a
          /\ \A e \in UnknownChildren(call.element) :
                \E k \in 1..Len(call.written.children) : call.written.children[k] = e

\* The range text 'a-b', for positions up to 19.
Positions == 1..19
RangeText(a, b) == str_int(a) \o <<"-">> \o str_int(b)

\* C25: a Segment element whose range attribute is the text 'a-b' is read
\* as a segment with range (a, b), begin a and end b, and a segment with
\* range (a, b) is written with the range text 'a-b'.
C25_SegmentRange ==
    /\ \A a, b \in Positions :
          (call.op = "from_xml" /\ call.element = SegmentElement(RangeText(a, b))) =>
             /\ call.result = "ok"
             /\ getattr(call.decoded, "range") = <<a, b>>
             /\ get_begin(call.decoded) = a
             /\ get_end(call.decoded) = b
    /\ (/\ call.op = "to_xml"
        /\ call.obj.cls = "FeatureSegment"
        /\ hasattr(call.obj, "range")) =>
          AttribValue(call.element, "range")
             = RangeText(getattr(call.obj, "range")[1], getattr(call.obj, "range")[2])

\* The items of a dict, which two equal dicts share whatever their order.
Items(d) == {d[k] : k \in 1..Len(d)}

\* C30: the qualifiers of Feature.from_xml(feature.to_xml()) equal the
\* qualifiers of feature: every name with its value, a scalar as the same
\* scalar of the same type, a list as a list of the same scalars.
C30_Qualifiers ==
    (call.op = "read_back" /\ call.prev = "init_kwargs") =>
        /\ call.result = "ok"
        /\ Items(getattr(call.decoded, "qualifiers")) = Items(getattr(call.obj, "qualifiers"))

\* What the code does: a list of one scalar comes back as that scalar,
\* every other value as itself.
Unwrapped(item) ==
    IF item.value.kind = "list" /\ Len(item.value.items) = 1
    THEN Item(item.name, item.value.items[1])
    ELSE item

C30_ListsOfOneUnwrapped ==
    (call.op = "read_back" /\ call.prev = "init_kwargs") =>
        /\ call.result = "ok"
        /\ Items(getattr(call.decoded, "qualifiers"))
              = {Unwrapped(i) : i \in Items(getattr(call.obj, "qualifiers"))}

\* What the argument-less getters of the document return: the sequence,
\* the features, the traces and the names of the traces, each with the
\* exception it raises instead.
Getters(bs) ==
    [sequence |-> get_sequence(bs), features |-> get_features(bs),
     traces |-> get_traces(bs, NoneArg), trace_names |-> get_trace_names(bs)]

\* C24: parse(p) of a well-formed file, write(q) to another path as the next
\* statement and parse(q) as the one after it all return normally, and the getters return
\* on the document of the second parse what they returned on the document
\* of the first.
C24_ParseWriteParse ==
    (/\ call.op = "parse"
     /\ call.prev.op = "write"
     /\ call.prev.path = call.path
     /\ call.prev.prev.op = "parse"
     /\ call.prev.prev.path # call.path
     /\ call.pre_files[call.prev.prev.path] = GoodFile) =>
        /\ call.prev.prev.result = "ok"
        /\ call.prev.result = "ok"
        /\ call.result = "ok"
        /\ Getters(blocks) = Getters(call.pre)

(***************************************************************************)
(* The ids of the traces.                                                  *)
(***************************************************************************)
InsertOps == {"insert_trace", "append_trace", "prepend_trace"}

\* C26: from a document with no traces, after any sequence of trace method
\* calls no two metadata entries share an id and no two
\* AlignedSequenceBlocks share an id; and the one id that an insert_trace,
\* append_trace or prepend_trace adds is the greatest metadata id before
\* the call plus 1 (1 when there was none), which no trace had.
C26_UniqueIds ==
    /\ Cardinality(MetadataIds(blocks)) = Len(Metadata(blocks))
    /\ Cardinality(SeqBlockIds(blocks)) = NumSeqBlocks(blocks)
    /\ (call.op \in InsertOps /\ call.result = "ok") =>
          /\ MetadataIds(blocks) \ MetadataIds(call.pre)
                = {MaxOf(MetadataIds(call.pre), 0) + 1}
          /\ SeqBlockIds(blocks) \ SeqBlockIds(call.pre)
                = {MaxOf(MetadataIds(call.pre), 0) + 1}

\* A trace was inserted into a document whose two traces a remove_trace
\* had renumbered to 0 and 1: it got the id 2.
C26_Witness ==
    /\ call.op \in InsertOps
    /\ call.result = "ok"
    /\ MetadataIds(call.pre) = {0, 1}
    /\ MetadataIds(blocks) = {0, 1, 2}
    /\ SeqBlockIds(blocks) = {0, 1, 2}

\* C27: when the transcoder fails during replace_trace(old_name, path) on a
\* document that has a trace named old_name, or during add_trace for a name
\* the document has a trace of, the call fails and the document is as it
\* was before the call.
C27_ReplaceFails ==
    (/\ call.tc # "ok"
     /\ \/ call.op = "replace_trace" /\ has_trace(call.pre, call.arg)
        \/ /\ call.op = "add_trace"
           /\ has_trace(call.pre, IF call.name # None THEN Str(call.name) ELSE call.path))
        => (call.result = call.tc /\ blocks = call.pre)

(***************************************************************************)
(* The frame of a failing add_feature.                                     *)
(***************************************************************************)
\* C28: when add_feature(feature, seq=A) raises SequenceNotFound or
\* ValueError, the block list of the document is the one before the call:
\* no FeaturesBlock has been made and no feature added.
C28_FailedAddFeature ==
    (/\ call.op = "add_feature"
     /\ call.seq # None
     /\ call.result \in {"SequenceNotFound", "ValueError"}) =>
        blocks = call.pre

\* What the code holds to: the features are as before, and the block list
\* is as before but for an empty FeaturesBlock at its end when the document
\* had none.
C28_FeaturesBlockMade ==
    (/\ call.op = "add_feature"
     /\ call.seq # None
     /\ call.result \in {"SequenceNotFound", "ValueError"}) =>
        /\ get_features(blocks) = get_features(call.pre)
        /\ blocks = IF BlockIdxs(call.pre, "FeaturesBlock") = {}
                    THEN Append(call.pre, NewBlock("FeaturesBlock"))
                    ELSE call.pre


\* C29: a write with an explicit path, on a document made from a Fresh one
\* by the editing methods and still led by its HeaderBlock, succeeds.
C29_EditedDocumentsWrite ==
    (/\ call.op = "write"
     /\ call.path # None
     /\ call.pre # <<>>
     /\ call.pre[1].cls = "HeaderBlock") => call.result = "ok"

\* The write fails exactly when the document holds an AlignmentsBlock.
C29_WriteFailsWithAlignments ==
    (/\ call.op = "write"
     /\ call.path # None) =>
        /\ call.pre # <<>>
        /\ call.pre[1].cls = "HeaderBlock"
        /\ (call.result = "ok") = (BlockIdxs(call.pre, "AlignmentsBlock") = {})
        /\ call.result \in {"ok", "TypeError"}

\* A document with a DnaBlock and no AlignmentsBlock has been written.
C29_Written ==
    /\ call.op = "write"
    /\ call.path # None
    /\ call.result = "ok"
    /\ BlockIdxs(call.pre, "DnaBlock") # {}

====
